---------------------------- MODULE Spec2Model ----------------------------
(***************************************************************************)
(* E90RemoteStart: CAN frame transport queue (lib/canbus), command         *)
(* sequencer and frame decoder (lib/CarControl), climate control           *)
(* (lib/ClimateControl) and steering-wheel gesture recognizer              *)
(* (src/CustomKeys.cpp), modelled as state machines.                       *)
(*                                                                         *)
(* Ten specifications share the module:                                    *)
(*   SpecQueue    the interrupt-fed ring buffer of CANBus                  *)
(*   SpecDome     CarControl's update-function queue and dome-light step   *)
(*   SpecDomeLive the same in a loop that never stops calling update       *)
(*   SpecKeys     CustomKeys' button state machine                         *)
(*   SpecKeysLive the same in a loop that never stops calling update       *)
(*   SpecLoop     both updates in the order of loop(), across the wrap of  *)
(*                millis()                                                 *)
(*   SpecClimate  ClimateControl's seat-heater calls and status frames     *)
(*   SpecControl  CarControl's blocking control calls                      *)
(*   SpecIntake   the interrupt handler next to the frame read of loop()   *)
(*   SpecDecode   one frame through both parseCanFrame functions           *)
(* Each one leaves the variables of the other components unchanged.        *)
(***************************************************************************)
EXTENDS Integers, Sequences, FiniteSets, TLC

(***************************************************************************)
(* Program constants                                                       *)
(***************************************************************************)
CAN_BUFFER_SIZE == 32

LOG_BUFFER_SIZE == 32

BUTTON_PRESS_DURATION_MS == 200

LONG_PRESS_THRESHOLD == 800

DOUBLE_PRESS_WINDOW == 400

(***************************************************************************)
(* Bounds of the model                                                     *)
(***************************************************************************)
\* frames the transceiver delivers to the interrupt handler in one run
MaxArrivals == 34

\* length in ms of a run of the command sequencer
MaxTimeDome == 700

\* setDomeLight calls that arm the action in one run
MaxArms == 3

\* length in ms of a run of the gesture recognizer
MaxTimeKeys == 1200

\* changes of the custom-button signal in one run
MaxEdges == 4

\* seat-heater calls in one run
MaxSeatCalls == 1

\* setDomeLight calls in one run of the loop that holds both the sequencer
\* and the recognizer
MaxLoopArms == 1

\* frames the transceiver hands over in one run of the intake
MaxIntake == 6

\* CarControl control calls in one run
MaxCtlCalls == 2

(***************************************************************************)
(* Variables                                                               *)
(***************************************************************************)
VARIABLES
    \* ---- CANBus (lib/canbus/canbus.h:32-35) ----
    buffer,         \* volatile CANFrame buffer[CAN_BUFFER_SIZE]
    bufferHead,     \* volatile uint8_t bufferHead
    bufferTail,     \* volatile uint8_t bufferTail
    gpc,            \* position of the application context inside bufferGet
    gi,             \* loop index i of bufferGet's data copy
    rx,             \* the caller's CANFrame that bufferGet fills
    arrivals,       \* frames read so far by handleInterrupt
    \* ---- observations of the queue (history, not program state) ----
    accepted,       \* frames of the bufferPut calls that returned true
    returned,       \* frames of the bufferGet calls that returned true
    lastPut,        \* result of the latest bufferPut: "none", "ok", "full"
    lastGet,        \* result of the latest bufferGet: "none", "ok", "empty"
    burst,          \* results of the puts since the queue was last empty,
                    \* kept while burstClean
    burstClean,     \* no get has returned a frame since the queue was last
                    \* empty
    drainCount,     \* successful gets since the latest put, counted when
                    \* that put was rejected
    preempted,      \* an accepted put ran in the middle of the current get
    clobber,        \* a put wrote the slot a get was in the middle of reading
    \* ---- the clock ----
    now,            \* millis(): a 32-bit counter, as <<high half, low half>>
    t,              \* milliseconds since the start of the run (never wraps)
    \* ---- CarControl (lib/CarControl) ----
    canBus,         \* CarControl::canBus is set (not nullptr)
    carState,       \* CarControl::state, the vehicle-state snapshot
    pending,        \* domeLightCommand.pending
    active,         \* updateDomeLightControl's static active
    pressTime,      \* updateDomeLightControl's static pressTime
    updateFunctions,\* CarControl::updateFunctions
    tx,             \* frames handed to CANBus::write, oldest first
    \* ---- observations of the sequencer ----
    lastAct,        \* the operation of the latest step
    callOn,         \* argument of the latest setDomeLight call
    callResult,     \* its return value
    lastPressT,     \* t when the latest dome-light press frame was sent
    restarted,      \* the running dome-light sequence was re-armed while
                    \* active
    arms,           \* setDomeLight calls that set the pending flag
    \* ---- CustomKeys (src/CustomKeys.cpp) ----
    keysCar,        \* CustomKeys::carControl is set (not nullptr)
    keyState,       \* CustomKeys::state
    pressStartTime, \* CustomKeys::pressStartTime
    firstReleaseTime, \* CustomKeys::firstReleaseTime
    lastButtonState,\* CustomKeys::lastButtonState
    lastAction,     \* onDoublePress's static lastAction
    \* ---- observations of the button signal and of the recognizer ----
    sig,            \* t of each change of the custom-button signal since
                    \* the recognizer was last polled in IDLE, oldest first
    samp,           \* t of the update that sampled each of these changes
    missed,         \* some change was followed by another before an update
                    \* sampled it
    fired,          \* the gesture actions invoked since then, with their t
    edges,          \* changes of the custom-button signal in the run
    \* ---- ClimateControl (lib/ClimateControl) ----
    climBus,        \* ClimateControl::canBus is set (not nullptr)
    climState,      \* ClimateControl::state, the climate-state snapshot
    \* ---- observations of the control calls ----
    ctl,            \* the latest control call: operation, argument, return
                    \* value, the results of its transceiver writes and
                    \* Len(tx) when it began
    seatCalls,      \* seat-heater calls made in the run
    ctlCalls,       \* CarControl control calls made in the run
    \* ---- one decode of one frame ----
    decIn,          \* the frame: identifier, payload bytes, length
    decPc,          \* "start" before parseCanFrame has run, "done" after
    carBefore,      \* the vehicle-state snapshot before the decode
    climBefore,     \* the climate-state snapshot before the decode
    \* ---- Logger (lib/Logger/Logger.cpp:7-9) ----
    logBuffer,      \* volatile LogEntry logBuffer[LOG_BUFFER_SIZE]
    logHead,        \* volatile uint8_t logHead
    logTail         \* volatile uint8_t logTail

queueVars == <<buffer, bufferHead, bufferTail, gpc, gi, rx, arrivals,
               accepted, returned, lastPut, lastGet, burst,
               burstClean, drainCount, preempted, clobber>>

clockVars == <<now, t>>

carVars == <<canBus, carState, pending, active, pressTime, updateFunctions, tx>>

domeObs == <<lastAct, callOn, callResult, lastPressT, restarted, arms>>

keyVars == <<keysCar, keyState, pressStartTime, firstReleaseTime,
             lastButtonState, lastAction>>

keyObs == <<sig, samp, missed, fired, edges>>

climVars == <<climBus, climState>>

ctlObs == <<ctl, seatCalls, ctlCalls>>

decVars == <<decIn, decPc, carBefore, climBefore>>

logVars == <<logBuffer, logHead, logTail>>

vars == <<queueVars, clockVars, carVars, domeObs, keyVars, keyObs, climVars,
          ctlObs, decVars, logVars>>

(***************************************************************************)
(* CAN frames                                                              *)
(***************************************************************************)
Byte == 0..255

\* struct CANFrame { uint32_t id; uint8_t dlc; uint8_t data[8]; }
MkFrame(id, dlc, data) == [id |-> id, dlc |-> dlc, data |-> data]

\* static storage is zero-initialised
ZeroFrame == MkFrame(0, 0, [i \in 0..7 |-> 0])

\* What the bytes of handleInterrupt's local frame beyond dlc may hold:
\* CANBus::read copies only the first can_dlc bytes, the rest is whatever
\* the stack held.
StackBytes == {0, 238}

\* Length of the n-th frame on the bus: mostly full frames, every eighth
\* one short (0, 1, 2, ... bytes).
ArrivalDlc(n) == IF n % 8 = 5 THEN (n \div 8) % 8 ELSE 8

\* CANBus::read: the n-th frame the transceiver hands over; g is the stale
\* content of the bytes read() does not write.  The first frame is an 0x0aa
\* frame, the second an 0x2e6 frame, the identifiers differ from frame to
\* frame.
ReadFrame(n, g) ==
    MkFrame((170 + 572 * n) % 2048,
            ArrivalDlc(n),
            [i \in 0..7 |-> IF i < ArrivalDlc(n) THEN (16 * n + i + 1) % 256 ELSE g])

(***************************************************************************)
(* CANBus::bufferPut, run to completion in interrupt context               *)
(***************************************************************************)
\* the next head index without the wrap to 0
NextHeadNoWrap == bufferHead + 1

\* uint8_t nextHead = (bufferHead + 1) % CAN_BUFFER_SIZE;
NextHead == (bufferHead + 1) % CAN_BUFFER_SIZE

\* bufferPut with the emptiness test of bufferGet as its overflow test
PutRejectsWhenEmpty == bufferHead = bufferTail

\* bufferPut without its overflow test
PutNeverRejects == FALSE

\* the overflow test of bufferPut
PutRejects == NextHead = bufferTail

\* the get is between its emptiness test and its update of bufferTail
MidGet == gpc # "idle"

BufferPut(frame) ==
    IF PutRejects
    THEN /\ lastPut' = "full"
         /\ burst' = IF burstClean THEN Append(burst, FALSE) ELSE <<>>
         /\ UNCHANGED <<buffer, bufferHead, accepted, preempted, clobber>>
    ELSE /\ buffer' = [buffer EXCEPT ![bufferHead] = frame]
         /\ bufferHead' = NextHead
         /\ lastPut' = "ok"
         /\ accepted' = Append(accepted, frame)
         /\ burst' = IF burstClean THEN Append(burst, TRUE) ELSE <<>>
         /\ preempted' = (preempted \/ MidGet)
         /\ clobber' = (clobber \/ (MidGet /\ bufferHead = bufferTail))

\* CANBus::handleInterrupt with a successful read
HandleInterrupt ==
    /\ arrivals < MaxArrivals
    /\ \E g \in (IF ArrivalDlc(arrivals) < 8 THEN StackBytes ELSE {0}) :
          BufferPut(ReadFrame(arrivals, g))
    /\ arrivals' = arrivals + 1
    /\ drainCount' = 0
    /\ UNCHANGED <<bufferTail, gpc, gi, rx, returned, lastGet, burstClean>>

\* CANBus::handleInterrupt when read() fails: nothing is enqueued
HandleInterruptNoFrame ==
    UNCHANGED vars

(***************************************************************************)
(* CANBus::bufferGet, one step per volatile access, in application context *)
(***************************************************************************)
\* the emptiness test of bufferGet, with the test of bufferPut in its place
GetSeesEmptyAsFull == (bufferHead + 1) % CAN_BUFFER_SIZE = bufferTail

\* the emptiness test of bufferGet
GetSeesEmpty == bufferHead = bufferTail

\* bufferGet without the advance of bufferTail
NextTailStuck == bufferTail

\* the index bufferGet stores into bufferTail
NextTail == (bufferTail + 1) % CAN_BUFFER_SIZE

\* if (bufferHead == bufferTail) return false;
BufferGetCheck ==
    /\ gpc = "idle"
    /\ IF GetSeesEmpty
       THEN /\ lastGet' = "empty"
            /\ gpc' = "idle"
       ELSE /\ gpc' = "id"
            /\ UNCHANGED lastGet
    /\ preempted' = FALSE
    /\ UNCHANGED <<buffer, bufferHead, bufferTail, gi, rx, arrivals, accepted,
                   returned, lastPut, burst, burstClean, drainCount,
                   clobber>>

\* frame.id = buffer[bufferTail].id;
BufferGetId ==
    /\ gpc = "id"
    /\ rx' = [rx EXCEPT !.id = buffer[bufferTail].id]
    /\ gpc' = "dlc"
    /\ UNCHANGED <<buffer, bufferHead, bufferTail, gi, arrivals, accepted,
                   returned, lastPut, lastGet, burst, burstClean, drainCount, preempted,
                   clobber>>

\* frame.dlc = buffer[bufferTail].dlc;
BufferGetDlc ==
    /\ gpc = "dlc"
    /\ rx' = [rx EXCEPT !.dlc = buffer[bufferTail].dlc]
    /\ gpc' = "data"
    /\ gi' = 0
    /\ UNCHANGED <<buffer, bufferHead, bufferTail, arrivals, accepted,
                   returned, lastPut, lastGet, burst, burstClean, drainCount, preempted,
                   clobber>>

\* for (i = 0; i < 8; i++) frame.data[i] = buffer[bufferTail].data[i];
BufferGetData ==
    /\ gpc = "data"
    /\ rx' = [rx EXCEPT !.data[gi] = buffer[bufferTail].data[gi]]
    /\ gi' = gi + 1
    /\ gpc' = IF gi + 1 < 8 THEN "data" ELSE "tail"
    /\ UNCHANGED <<buffer, bufferHead, bufferTail, arrivals, accepted,
                   returned, lastPut, lastGet, burst, burstClean, drainCount, preempted,
                   clobber>>

\* bufferTail = (bufferTail + 1) % CAN_BUFFER_SIZE; return true;
BufferGetTail ==
    /\ gpc = "tail"
    /\ bufferTail' = NextTail
    /\ gpc' = "idle"
    /\ returned' = Append(returned, rx)
    /\ lastGet' = "ok"
    /\ drainCount' = IF lastPut = "full" THEN drainCount + 1 ELSE 0
    /\ burst' = <<>>
    /\ burstClean' = (bufferHead = bufferTail')
    /\ UNCHANGED <<buffer, bufferHead, gi, rx, arrivals, accepted, lastPut,
                   preempted, clobber>>

QueueOnly ==
    UNCHANGED <<clockVars, carVars, domeObs, keyVars, keyObs, climVars, ctlObs,
                decVars, logVars>>

InitQueue ==
    /\ buffer = [s \in 0..(CAN_BUFFER_SIZE - 1) |-> ZeroFrame]
    /\ bufferHead = 0
    /\ bufferTail = 0
    /\ gpc = "idle"
    /\ gi = 0
    /\ rx = ZeroFrame
    /\ arrivals = 0
    /\ accepted = <<>>
    /\ returned = <<>>
    /\ lastPut = "none"
    /\ lastGet = "none"
    /\ burst = <<>>
    /\ burstClean = TRUE
    /\ drainCount = 0
    /\ preempted = FALSE
    /\ clobber = FALSE


(***************************************************************************)
(* The clock: millis() is an unsigned long, 32 bits wide on the ESP8266.   *)
(* A value is kept as its two 16-bit halves <<high, low>>.                 *)
(***************************************************************************)
Half == 65536

\* m + d for 0 <= d < 65536, modulo 2^32
MillisAdd(m, d) ==
    <<(m[1] + ((m[2] + d) \div Half)) % Half, (m[2] + d) % Half>>

\* the unsigned subtraction replaced by one that yields 0 where the clock
\* reads less than the timestamp (what a signed comparison makes of it)
MillisSubSaturating(a, b) ==
    IF a[1] < b[1] \/ (a[1] = b[1] /\ a[2] < b[2])
    THEN <<0, 0>>
    ELSE <<a[1] - b[1] - (IF a[2] < b[2] THEN 1 ELSE 0), (a[2] - b[2]) % Half>>

\* a - b as the unsigned subtraction of two unsigned longs, modulo 2^32
MillisSub(a, b) ==
    <<(a[1] - b[1] - (IF a[2] < b[2] THEN 1 ELSE 0)) % Half, (a[2] - b[2]) % Half>>

\* e >= c for a constant 0 <= c < 65536
MillisGE(e, c) == e[1] > 0 \/ e[2] >= c

\* millis() at the start of a run: just after boot, or shortly before the
\* counter wraps (49.7 days of uptime)
MillisStarts == {<<0, 0>>, <<65535, 65236>>}

\* amounts of time that pass between two steps of the main loop
Deltas == {50, 100}

AdvanceClock(d, max) ==
    /\ t + d <= max
    /\ t' = t + d
    /\ now' = MillisAdd(now, d)

(***************************************************************************)
(* CarControl: frames sent, the part of the snapshot the sequencer and the *)
(* gesture recognizer read, and the dome-light step function               *)
(***************************************************************************)
\* CarControl::sendCanFrame followed by CANBus::write: the identifier, the
\* length and the first len bytes go to the transceiver.
TxFrame(id, data, len) == [id |-> id, dlc |-> len, data |-> SubSeq(data, 1, len)]

\* uint8_t pressData[8] = {0xf1, 0xff, 0, 0, 0, 0, 0, 0}; sent with len 2
DomePressFrame == TxFrame(483, <<241, 255, 0, 0, 0, 0, 0, 0>>, 2)

\* uint8_t releaseData[8] = {0xf0, 0xff, 0, 0, 0, 0, 0, 0}; sent with len 2
DomeReleaseFrame == TxFrame(483, <<240, 255, 0, 0, 0, 0, 0, 0>>, 2)

\* the release test with > in place of >=
DomeReleaseDueLate(st, cur) ==
    LET e == MillisSub(cur, st.pressTime)
    IN  e[1] > 0 \/ e[2] > BUTTON_PRESS_DURATION_MS

\* the release test that never succeeds
DomeReleaseDueNever(st, cur) == FALSE

\* if (currentTime - pressTime >= BUTTON_PRESS_DURATION_MS)
DomeReleaseDue(st, cur) ==
    MillisGE(MillisSub(cur, st.pressTime), BUTTON_PRESS_DURATION_MS)

\* the new-command branch without pressTime = millis()
DomeTakeCommandKeepTime(st, cur) ==
    IF st.pending
    THEN [st EXCEPT !.pending = FALSE, !.active = TRUE,
                    !.tx = Append(@, DomePressFrame)]
    ELSE st

\* if (domeLightCommand.pending) { pending = false; active = true;
\*     pressTime = millis(); sendCanFrame(0x1e3, pressData, 2); }
DomeTakeCommand(st, cur) ==
    IF st.pending
    THEN [st EXCEPT !.pending = FALSE, !.active = TRUE, !.pressTime = cur,
                    !.tx = Append(@, DomePressFrame)]
    ELSE st

\* the step ending its sequence without the release frame
UpdateDomeLightControlNoRelease(st, cur) ==
    LET s1 == DomeTakeCommand(st, cur)
    IN  IF ~s1.active
        THEN [st |-> s1, keep |-> FALSE]
        ELSE IF DomeReleaseDue(s1, cur)
             THEN [st |-> [s1 EXCEPT !.active = FALSE], keep |-> FALSE]
             ELSE [st |-> s1, keep |-> TRUE]

\* updateDomeLightControl(ctrl): the statics and the bus after the call, and
\* the value returned (true: keep polling)
UpdateDomeLightControl(st, cur) ==
    LET s1 == DomeTakeCommand(st, cur)
    IN  IF ~s1.active
        THEN [st |-> s1, keep |-> FALSE]
        ELSE IF DomeReleaseDue(s1, cur)
             THEN [st |-> [s1 EXCEPT !.tx = Append(@, DomeReleaseFrame),
                                     !.active = FALSE],
                   keep |-> FALSE]
             ELSE [st |-> s1, keep |-> TRUE]

\* the one function CarControl ever puts into updateFunctions
DomeFn == "updateDomeLightControl"

\* calling the function pointer fn
CallUpdateFn(fn, st, cur) == UpdateDomeLightControl(st, cur)

\* the loop without the erase: every function stays in the vector
RunUpdateFunctionsNoErase(fns, i, kept, st, cur) ==
    IF i > Len(fns)
    THEN [st |-> st, fns |-> kept]
    ELSE [st |-> CallUpdateFn(fns[i], st, cur).st, fns |-> fns]

\* CarControl::update's loop over updateFunctions from position i on:
\* a function that returns false is erased, the others are kept in order
RECURSIVE RunUpdateFunctions(_, _, _, _, _)
RunUpdateFunctions(fns, i, kept, st, cur) ==
    IF i > Len(fns)
    THEN [st |-> st, fns |-> kept]
    ELSE LET r == CallUpdateFn(fns[i], st, cur)
         IN  RunUpdateFunctions(fns, i + 1,
                                IF r.keep THEN Append(kept, fns[i]) ELSE kept,
                                r.st, cur)

DomeStatics == [pending |-> pending, active |-> active,
                pressTime |-> pressTime, tx |-> tx]

\* void CarControl::update()
CarUpdate ==
    /\ canBus
    /\ LET r == RunUpdateFunctions(updateFunctions, 1, <<>>, DomeStatics, now)
       IN  /\ pending' = r.st.pending
           /\ active' = r.st.active
           /\ pressTime' = r.st.pressTime
           /\ tx' = r.st.tx
           /\ updateFunctions' = r.fns
           /\ lastPressT' = IF \E k \in (Len(tx) + 1)..Len(r.st.tx) :
                                   r.st.tx[k] = DomePressFrame
                            THEN t ELSE lastPressT
           /\ restarted' = IF ~r.st.active THEN FALSE
                           ELSE (restarted \/ (pending /\ active))
    /\ lastAct' = "update"
    /\ UNCHANGED <<canBus, carState, clockVars, callOn, callResult, arms>>

\* the test of the requested state against the wrong side of the threshold
DomeCurrentlyOnInverted == carState.domeLightBrightness <= 50

\* bool currentlyOn = (state.domeLightBrightness > 50);
DomeCurrentlyOn == carState.domeLightBrightness > 50

\* the search of the vector that never finds the function
AlreadyInQueueNever == FALSE

\* the search of the vector that always finds the function
AlreadyInQueueAlways == TRUE

\* for (auto fn : updateFunctions) if (fn == &updateDomeLightControl) ...
AlreadyInQueue == \E k \in 1..Len(updateFunctions) : updateFunctions[k] = DomeFn

\* bool CarControl::setDomeLight(bool on)
SetDomeLight(on) ==
    /\ IF ~canBus
       THEN /\ callResult' = FALSE
            /\ UNCHANGED <<pending, updateFunctions, arms>>
       ELSE IF DomeCurrentlyOn = on
       THEN /\ callResult' = TRUE
            /\ UNCHANGED <<pending, updateFunctions, arms>>
       ELSE /\ arms < MaxArms
            /\ pending' = TRUE
            /\ updateFunctions' = IF AlreadyInQueue THEN updateFunctions
                                  ELSE Append(updateFunctions, DomeFn)
            /\ callResult' = TRUE
            /\ arms' = arms + 1
    /\ callOn' = on
    /\ lastAct' = "setDomeLight"
    /\ UNCHANGED <<canBus, carState, active, pressTime, tx, clockVars,
                   lastPressT, restarted>>

\* the 8 data slots of a received frame whose first bytes are bytes
Payload(bytes) == [i \in 0..7 |-> IF i < Len(bytes) THEN bytes[i + 1] ELSE 0]

\* case 0x286: if (len > 1) state.domeLightBrightness = data[1];
Parse_0x286(st, data, len) ==
    IF len > 1 THEN [st EXCEPT !.domeLightBrightness = data[1]] ELSE st

\* payloads of the dome-light status frame 0x286 seen on the bus
DomePayloads == {Payload(<<0, 0>>), Payload(<<0, 50>>), Payload(<<0, 51>>),
                 Payload(<<0, 255>>)}

\* CarControl::onCanFrameReceived with a 0x286 frame
OnDomeFrame ==
    /\ canBus
    /\ \E data \in DomePayloads, len \in {1, 2} :
          carState' = Parse_0x286(carState, data, len)
    /\ lastAct' = "decode"
    /\ UNCHANGED <<canBus, pending, active, pressTime, updateFunctions, tx,
                   clockVars, callOn, callResult, lastPressT, restarted, arms>>

\* time passes between two steps of the main loop
DomeClock ==
    /\ \E d \in Deltas : AdvanceClock(d, MaxTimeDome)
    /\ lastAct' = "clock"
    /\ UNCHANGED <<carVars, callOn, callResult, lastPressT, restarted, arms>>

\* time passes between two steps of the main loop, also past the end of the
\* run for as long as a dome-light sequence waits for its release time
DomeClockLive ==
    /\ \E d \in Deltas :
          /\ \/ t + d <= MaxTimeDome
             \/ active /\ t - lastPressT < BUTTON_PRESS_DURATION_MS
          /\ t' = t + d
          /\ now' = MillisAdd(now, d)
    /\ lastAct' = "clock"
    /\ UNCHANGED <<carVars, callOn, callResult, lastPressT, restarted, arms>>

\* a float of the snapshot, kept exactly as numerator and denominator
Ratio(num, den) == <<num, den>>

\* memset(&state, 0, sizeof(state))
ZeroCarState ==
    [braking |-> FALSE, doorLocked |-> FALSE, doorOpen |-> FALSE,
     driverDoorOpen |-> FALSE, doorOpenDriverFront |-> FALSE,
     doorOpenPassengerFront |-> FALSE, doorOpenDriverRear |-> FALSE,
     doorOpenPassengerRear |-> FALSE, mirrorsRetracted |-> FALSE,
     parkingBrakeOn |-> FALSE, steeringButtonPressed |-> 0,
     seatBeltPlugged |-> FALSE, brakeStatus |-> 0, domeLightBrightness |-> 0,
     batteryVoltage |-> Ratio(0, 1), engineFlagFromCAN |-> FALSE,
     windowPosDriverFront |-> 0, windowPosPassengerFront |-> 0,
     windowPosDriverRear |-> 0, windowPosPassengerRear |-> 0,
     engineRPM |-> 0, throttlePosition |-> 0,
     steeringWheelAngle |-> Ratio(0, 1), speed |-> Ratio(0, 1),
     engineTemp |-> 0, odometer |-> 0, range |-> Ratio(0, 1), fuelLevel |-> 0,
     torque |-> Ratio(0, 1), keyStateRaw |-> 0, keyStateAvailable |-> FALSE,
     gearPositionRaw |-> 0]

\* CarControl::CarControl(): canBus(nullptr), memset(&state, 0, ...); the
\* statics of CarControl.cpp start false / 0 and the vector empty
InitCarStatics ==
    /\ canBus = FALSE
    /\ pending = FALSE
    /\ active = FALSE
    /\ pressTime = <<0, 0>>
    /\ updateFunctions = <<>>
    /\ tx = <<>>
    /\ lastAct = "none"
    /\ callOn = FALSE
    /\ callResult = FALSE
    /\ lastPressT = 0
    /\ restarted = FALSE
    /\ arms = 0

InitCar == carState = ZeroCarState /\ InitCarStatics

(***************************************************************************)
(* CustomKeys: the gesture recognizer on the custom steering-wheel button  *)
(***************************************************************************)
\* x & b != 0 for a single bit b
HasBit(x, b) == (x \div b) % 2 = 1

STEERING_BTN_CUSTOM == 8

\* the bit of state.steeringButtonPressed behind each STEERING_BTN_ flag
SteeringBitOf ==
    [f \in {128, 64, 32, 16, 8, 4, 2, 1} |->
        CASE f = 128 -> 2048
          [] f = 64  -> 1024
          [] f = 32  -> 1
          [] f = 16  -> 256
          [] f = 8   -> 64
          [] f = 4   -> 16
          [] f = 2   -> 8192
          [] f = 1   -> 4096]

\* bool CarControl::isSteeringButtonPressed(uint8_t mask) const
IsSteeringButtonPressed(st, mask) ==
    \E f \in DOMAIN SteeringBitOf :
        HasBit(st.steeringButtonPressed, SteeringBitOf[f]) /\ HasBit(mask, f)

\* case 0x1d6: if (len > 1) state.steeringButtonPressed = data[0] << 8 | data[1];
Parse_0x1d6(st, data, len) ==
    IF len > 1
    THEN [st EXCEPT !.steeringButtonPressed = data[0] * 256 + data[1]]
    ELSE st

\* payloads of the steering-button frame 0x1d6 seen on the bus: nothing
\* pressed, the custom button, volume up together with the voice button
SteeringPayloads == {Payload(<<0, 0>>), Payload(<<0, 64>>), Payload(<<8, 1>>)}

\* window selection flags
DRIVER_FRONT == 1

PASSENGER_FRONT == 2

DRIVER_REAR == 4

PASSENGER_REAR == 8

\* the direction bits with the right window on the bits of the left one
WindowBitsLeftOnly(left, right, pos) ==
    (IF left \/ right THEN (CASE pos = "WINDOW_ROLL_DOWN" -> 2
                              [] pos = "WINDOW_ROLL_UP" -> 4
                              [] OTHER -> 0)
                      ELSE 0)

\* the direction bits setWindow ORs into a payload byte for the left
\* (driver side) and the right (passenger side) window
WindowBits(left, right, pos) ==
    (IF left THEN (CASE pos = "WINDOW_ROLL_DOWN" -> 2
                     [] pos = "WINDOW_ROLL_UP" -> 4
                     [] OTHER -> 0)
             ELSE 0)
    + (IF right THEN (CASE pos = "WINDOW_ROLL_DOWN" -> 16
                        [] pos = "WINDOW_ROLL_UP" -> 32
                        [] OTHER -> 0)
                ELSE 0)

\* bool CarControl::setWindow(uint8_t windowMask, WindowPosition pos): the
\* frame it hands to sendCanFrame
SetWindowFrame(windowMask, pos) ==
    TxFrame(250,
            <<192 + WindowBits(HasBit(windowMask, DRIVER_FRONT),
                               HasBit(windowMask, PASSENGER_FRONT), pos),
              192 + WindowBits(HasBit(windowMask, DRIVER_REAR),
                               HasBit(windowMask, PASSENGER_REAR), pos),
              255>>,
            3)

\* the frames CarControl::sendCanFrame adds to the bus: none without canBus
SendCanFrame(bus, frame) == IF canBus THEN Append(bus, frame) ELSE bus

\* the delay(150) inside CarControl::playGong
GongDelay == 150

\* void CarControl::playGong(): two frames on 0x24b, 150 ms apart
PlayGong(bus) ==
    SendCanFrame(SendCanFrame(bus, TxFrame(587, <<1, 248>>, 2)),
                 TxFrame(587, <<0, 248>>, 2))

\* the direction onDoublePress chooses
DoublePressTarget ==
    IF carState.windowPosPassengerRear > 230 THEN "WINDOW_ROLL_UP"
    ELSE IF carState.windowPosPassengerRear < 25 THEN "WINDOW_ROLL_DOWN"
    ELSE IF lastAction = "WINDOW_ROLL_UP" THEN "WINDOW_ROLL_DOWN"
    ELSE "WINDOW_ROLL_UP"

\* the long-press test with > in place of >=
LongPressDueLate(cur) ==
    LET e == MillisSub(cur, pressStartTime)
    IN  e[1] > 0 \/ e[2] > LONG_PRESS_THRESHOLD

\* currentTime - pressStartTime >= LONG_PRESS_THRESHOLD
LongPressDue(cur) ==
    MillisGE(MillisSub(cur, pressStartTime), LONG_PRESS_THRESHOLD)

\* the double-press window measured from the press instead of the release
DoubleWindowOverFromPress(cur) ==
    MillisGE(MillisSub(cur, pressStartTime), DOUBLE_PRESS_WINDOW)

\* currentTime - firstReleaseTime >= DOUBLE_PRESS_WINDOW
DoubleWindowOver(cur) ==
    MillisGE(MillisSub(cur, firstReleaseTime), DOUBLE_PRESS_WINDOW)

\* SECOND_PRESS_DOWN ending the gesture only after a short second press
SecondPressEndsShort(buttonPressed, cur) ==
    ~buttonPressed /\ ~MillisGE(MillisSub(cur, firstReleaseTime), LONG_PRESS_THRESHOLD)

\* SECOND_PRESS_DOWN ending the gesture while the button is still held
SecondPressEndsAlways(buttonPressed, cur) == TRUE

\* SECOND_PRESS_DOWN never ending the gesture
SecondPressEndsNever(buttonPressed, cur) == FALSE

\* case SECOND_PRESS_DOWN: if (!buttonPressed)
SecondPressEnds(buttonPressed, cur) == ~buttonPressed

\* the switch with the release of a long press taken as a first release
KeysSwitchLongToWaiting(buttonPressed, cur) ==
    LET stay == [state |-> keyState, press |-> pressStartTime,
                 release |-> firstReleaseTime, event |-> "none"]
    IN  CASE keyState = "IDLE" ->
                IF buttonPressed /\ ~lastButtonState
                THEN [stay EXCEPT !.state = "FIRST_PRESS_DOWN", !.press = cur]
                ELSE stay
          [] keyState = "FIRST_PRESS_DOWN" ->
                IF ~buttonPressed
                THEN [stay EXCEPT !.state = "WAITING_FOR_SECOND_PRESS",
                                  !.release = cur]
                ELSE IF LongPressDue(cur)
                THEN [stay EXCEPT !.state = "LONG_PRESS_ACTIVE", !.event = "long"]
                ELSE stay
          [] keyState = "WAITING_FOR_SECOND_PRESS" ->
                IF buttonPressed /\ ~lastButtonState
                THEN [stay EXCEPT !.state = "SECOND_PRESS_DOWN"]
                ELSE IF DoubleWindowOver(cur)
                THEN [stay EXCEPT !.state = "IDLE", !.event = "single"]
                ELSE stay
          [] keyState = "SECOND_PRESS_DOWN" ->
                IF SecondPressEnds(buttonPressed, cur)
                THEN [stay EXCEPT !.state = "IDLE", !.event = "double"]
                ELSE stay
          [] keyState = "LONG_PRESS_ACTIVE" ->
                IF ~buttonPressed
                THEN [stay EXCEPT !.state = "WAITING_FOR_SECOND_PRESS",
                                  !.release = cur]
                ELSE stay

\* The switch of CustomKeys::update on the sampled button and millis():
\* the next state, the timestamps and the gesture action invoked ("none",
\* "single", "double", "long").
KeysSwitch(buttonPressed, cur) ==
    LET stay == [state |-> keyState, press |-> pressStartTime,
                 release |-> firstReleaseTime, event |-> "none"]
    IN  CASE keyState = "IDLE" ->
                IF buttonPressed /\ ~lastButtonState
                THEN [stay EXCEPT !.state = "FIRST_PRESS_DOWN", !.press = cur]
                ELSE stay
          [] keyState = "FIRST_PRESS_DOWN" ->
                IF ~buttonPressed
                THEN [stay EXCEPT !.state = "WAITING_FOR_SECOND_PRESS",
                                  !.release = cur]
                ELSE IF LongPressDue(cur)
                THEN [stay EXCEPT !.state = "LONG_PRESS_ACTIVE", !.event = "long"]
                ELSE stay
          [] keyState = "WAITING_FOR_SECOND_PRESS" ->
                IF buttonPressed /\ ~lastButtonState
                THEN [stay EXCEPT !.state = "SECOND_PRESS_DOWN"]
                ELSE IF DoubleWindowOver(cur)
                THEN [stay EXCEPT !.state = "IDLE", !.event = "single"]
                ELSE stay
          [] keyState = "SECOND_PRESS_DOWN" ->
                IF SecondPressEnds(buttonPressed, cur)
                THEN [stay EXCEPT !.state = "IDLE", !.event = "double"]
                ELSE stay
          [] keyState = "LONG_PRESS_ACTIVE" ->
                IF ~buttonPressed
                THEN [stay EXCEPT !.state = "IDLE"]
                ELSE stay

\* the custom-button signal as the snapshot holds it
ButtonNow == IsSteeringButtonPressed(carState, STEERING_BTN_CUSTOM)

\* The observations an update starts from.  An update that polls the
\* recognizer in IDLE opens a new record: it holds the rise this update
\* samples, if there is one, and nothing else.
ObsBase ==
    IF keyState = "IDLE"
    THEN [sig |-> IF Len(sig) > Len(samp) /\ ButtonNow
                  THEN <<sig[Len(sig)]>> ELSE <<>>,
          samp |-> <<>>, fired |-> <<>>, missed |-> FALSE]
    ELSE [sig |-> sig, samp |-> samp, fired |-> fired, missed |-> missed]

\* void CustomKeys::update(), with the gesture action it invokes
KeysUpdate ==
    /\ IF ~keysCar
       THEN UNCHANGED <<keyState, pressStartTime, firstReleaseTime,
                        lastButtonState, lastAction, tx, clockVars, keyObs>>
       ELSE LET r == KeysSwitch(ButtonNow, now)
                b == ObsBase
            IN  /\ keyState' = r.state
                /\ pressStartTime' = r.press
                /\ firstReleaseTime' = r.release
                /\ lastButtonState' = ButtonNow
                /\ sig' = b.sig
                /\ samp' = IF b.missed THEN <<>>
                           ELSE b.samp \o [k \in 1..(Len(b.sig) - Len(b.samp)) |-> t]
                /\ missed' = b.missed
                /\ fired' = IF b.missed \/ r.event = "none" THEN b.fired
                            ELSE Append(b.fired, [kind |-> r.event, at |-> t])
                /\ UNCHANGED edges
                /\ CASE r.event = "single" ->
                          \* onSinglePress: carControl->playGong()
                          /\ tx' = PlayGong(tx)
                          /\ t' = t + GongDelay
                          /\ now' = MillisAdd(now, GongDelay)
                          /\ UNCHANGED lastAction
                     [] r.event = "double" ->
                          \* onDoublePress: setWindow(PASSENGER_REAR | DRIVER_REAR, targetPos)
                          /\ tx' = SendCanFrame(tx, SetWindowFrame(PASSENGER_REAR + DRIVER_REAR,
                                                                   DoublePressTarget))
                          /\ lastAction' = DoublePressTarget
                          /\ UNCHANGED clockVars
                     [] OTHER ->
                          \* onLongPress is empty
                          UNCHANGED <<tx, lastAction, clockVars>>
    /\ lastAct' = "keys"
    /\ UNCHANGED <<keysCar, canBus, carState, pending, active, pressTime,
                   updateFunctions, callOn, callResult, lastPressT, restarted,
                   arms>>

\* CarControl::onCanFrameReceived with a 0x1d6 frame
OnSteeringFrame ==
    /\ canBus
    /\ \E data \in SteeringPayloads, len \in {1, 2} :
          LET st == Parse_0x1d6(carState, data, len)
              changed == IsSteeringButtonPressed(st, STEERING_BTN_CUSTOM) # ButtonNow
          IN  /\ carState' = st
              /\ changed => edges < MaxEdges
              /\ edges' = IF changed THEN edges + 1 ELSE edges
              /\ IF ~changed
                 THEN UNCHANGED <<sig, samp, fired, missed>>
                 ELSE IF missed \/ Len(sig) > Len(samp)
                 THEN \* a change no update sampled: the record is void
                      /\ missed' = TRUE
                      /\ sig' = <<t>>
                      /\ samp' = <<>>
                      /\ fired' = <<>>
                 ELSE /\ sig' = Append(sig, t)
                      /\ UNCHANGED <<samp, fired, missed>>
    /\ lastAct' = "decode"
    /\ UNCHANGED <<keyVars, clockVars, canBus, pending, active,
                   pressTime, updateFunctions, tx, callOn, callResult,
                   lastPressT, restarted, arms>>

\* amounts of time that pass between two steps of the main loop while the
\* recognizer is watched; loop() runs after setup()
KeyDeltas == {200, 400}

KeysClock ==
    /\ canBus
    /\ \E d \in KeyDeltas : AdvanceClock(d, MaxTimeKeys)
    /\ lastAct' = "clock"
    /\ UNCHANGED <<carVars, keyVars, keyObs, callOn, callResult, lastPressT,
                   restarted, arms>>

\* time passes between two steps of the main loop, also past the end of the
\* run for as long as the recognizer waits for the double-press window to
\* close
KeysClockLive ==
    /\ canBus
    /\ \E d \in KeyDeltas :
          /\ \/ t + d <= MaxTimeKeys
             \/ keyState = "WAITING_FOR_SECOND_PRESS" /\ ~DoubleWindowOver(now)
          /\ t' = t + d
          /\ now' = MillisAdd(now, d)
    /\ lastAct' = "clock"
    /\ UNCHANGED <<carVars, keyVars, keyObs, callOn, callResult, lastPressT,
                   restarted, arms>>

\* setup(): carControl->init(&can); climateControl->init(&can);
\* customKeys->init(carControl);
Setup ==
    /\ ~canBus
    /\ canBus' = TRUE
    /\ climBus' = TRUE
    /\ keysCar' = TRUE
    /\ keyState' = "IDLE"
    /\ lastAct' = "init"
    /\ UNCHANGED <<carState, pending, active, pressTime, updateFunctions, tx,
                   clockVars, callOn, callResult, lastPressT, restarted, arms,
                   pressStartTime, firstReleaseTime, lastButtonState,
                   lastAction, keyObs, climState>>

\* CustomKeys::CustomKeys() and the static of onDoublePress
InitKeys ==
    /\ keysCar = FALSE
    /\ keyState = "IDLE"
    /\ pressStartTime = <<0, 0>>
    /\ firstReleaseTime = <<0, 0>>
    /\ lastButtonState = FALSE
    /\ lastAction = "WINDOW_ROLL_UP"
    /\ sig = <<>>
    /\ samp = <<>>
    /\ missed = FALSE
    /\ fired = <<>>
    /\ edges = 0

(***************************************************************************)
(* ClimateControl: the climate snapshot and seat-heater stepping           *)
(***************************************************************************)
\* C's remainder, which truncates toward zero
CRem(a, n) == IF a >= 0 THEN a % n ELSE -((-a) % n)

\* conversion to uint8_t
U8(x) == x % 256

\* bool getBit(uint8_t byte, uint8_t bitPos)
GetBit(byte, bitPos) == (byte \div (2 ^ bitPos)) % 2 = 1

BLOWER_WINDSHIELD == 1

BLOWER_CENTER == 2

BLOWER_FOOTWELL == 4

BLOWER_AUTO == 0

\* case 0x2e6, bytes 0-2: the blower distribution
BlowerState(data) ==
    IF data[0] = 0 /\ data[1] = 100 /\ data[2] = 30
    THEN BLOWER_AUTO
    ELSE LET manual == (IF data[0] > 0 THEN BLOWER_WINDSHIELD ELSE 0)
                       + (IF data[1] > 0 THEN BLOWER_CENTER ELSE 0)
                       + (IF data[2] > 0 THEN BLOWER_FOOTWELL ELSE 0)
         IN  IF manual = 0 THEN BLOWER_AUTO ELSE manual

\* cases 0x2e6 / 0x2ea, byte 7: a temperature, kept when the raw value is
\* outside 0x20..0x38
CabinTemp(prev, rawTemp) ==
    IF rawTemp >= 32 /\ rawTemp <= 56
    THEN 16 + ((rawTemp - 32) * 12) \div 24
    ELSE prev

\* (data[0] & 0xF0) >> 4
UpperNibble(byte) == (byte \div 16) % 16

\* void ClimateControl::parseCanFrame(uint16_t id, const uint8_t* data, uint8_t len)
ClimateParseCanFrame(st, id, data, len) ==
    CASE id = 742 ->
            LET s1 == IF len > 2
                      THEN [st EXCEPT !.blowerState = BlowerState(data)] ELSE st
                s2 == IF len > 5
                      THEN [s1 EXCEPT !.fanSpeed = data[5] % 8] ELSE s1
            IN  IF len > 7
                THEN [s2 EXCEPT !.driverTemp = CabinTemp(s2.driverTemp, data[7])]
                ELSE s2
      [] id = 746 ->
            IF len > 7
            THEN [st EXCEPT !.passengerTemp = CabinTemp(st.passengerTemp, data[7])]
            ELSE st
      [] id = 578 ->
            LET s1 == IF len > 0
                      THEN [st EXCEPT !.acActive = GetBit(data[0], 0)] ELSE st
            IN  IF len > 2 THEN [s1 EXCEPT !.fanOn = GetBit(data[2], 0)] ELSE s1
      [] id = 562 ->
            IF len > 0
            THEN [st EXCEPT !.driverSeatHeater = UpperNibble(data[0])] ELSE st
      [] id = 554 ->
            IF len > 0
            THEN [st EXCEPT !.passengerSeatHeater = UpperNibble(data[0])] ELSE st
      [] OTHER -> st

\* ClimateControl::ClimateControl(): the zero-initialised snapshot
ZeroClimState ==
    [fanSpeed |-> 0, fanOn |-> FALSE, driverTemp |-> 0, passengerTemp |-> 0,
     acActive |-> FALSE, blowerState |-> BLOWER_AUTO, driverSeatHeater |-> 0,
     passengerSeatHeater |-> 0]

InitClimate == climBus = FALSE /\ climState = ZeroClimState

\* the result of each write of one call, as the transceiver decides it: of
\* the first write, and of every later one
WritePatterns == [first : BOOLEAN, rest : BOOLEAN]

\* bool CANBus::write(const CANFrame& frame): the result of the k-th write
WriteOk(pat, k) == IF k = 1 THEN pat.first ELSE pat.rest

\* a level test that lets 4 through
SeatLevelAbove4(desiredLevel) == desiredLevel > 4

\* desiredLevel > 3
SeatLevelInvalid(desiredLevel) == desiredLevel > 3

\* the position taken for the level itself
SeatPosIsLevel(level) == level

\* level == 0 ? 0 : 4 - level, as uint8_t
SeatPos(level) == IF level = 0 THEN 0 ELSE U8(4 - level)

\* uint8_t clicksNeeded = (desiredPos - currentPos + 4) % 4
ClicksNeeded(current, desiredLevel) ==
    U8(CRem(SeatPos(desiredLevel) - SeatPos(current) + 4, 4))

\* the frames of n toggles: press, release, press, release, ...
Clicks(press, release, n) ==
    [k \in 1..(2 * n) |-> IF k % 2 = 1 THEN press ELSE release]

\* toggleDriverSeatHeater: sendCanFrame(0x1e7, {0xfd, 0xff}, 2) and
\* sendCanFrame(0x1e7, {0xfc, 0xff}, 2)
DriverSeatPress == TxFrame(487, <<253, 255>>, 2)

DriverSeatRelease == TxFrame(487, <<252, 255>>, 2)

\* togglePassengerSeatHeater: sendCanFrame(0x1e8, {0xfd, 0xff}, 1) and
\* sendCanFrame(0x1e8, {0xfc, 0xff}, 1)
PassengerSeatPress == TxFrame(488, <<253, 255>>, 1)

PassengerSeatRelease == TxFrame(488, <<252, 255>>, 1)

\* delay(80) between press and release in toggleDriverSeatHeater
DriverToggleDelay == 80

\* delay(80) after each toggle in setDriverSeatHeater
DriverStepDelay == 80

\* the call record every control call leaves
CallRecord(op, bus, arg, pos, ret, pat, level, wait) ==
    [op |-> op, bus |-> bus, arg |-> arg, pos |-> pos, ret |-> ret,
     pat |-> pat, from |-> Len(tx), level |-> level, wait |-> wait]

\* a call blocks for wait ms and hands frames to CANBus::write
CallEffects(frames, wait) ==
    /\ tx' = tx \o frames
    /\ t' = t + wait
    /\ now' = MillisAdd(now, wait)

\* what a seat-heater call leaves alone
SeatCallFrame ==
    UNCHANGED <<canBus, carState, pending, active, pressTime, updateFunctions,
                domeObs, keyVars, keyObs, climVars, ctlCalls, decVars, logVars>>

\* bool ClimateControl::setDriverSeatHeater(uint8_t desiredLevel)
SetDriverSeatHeater(desiredLevel, pat) ==
    LET rejected == ~climBus \/ SeatLevelInvalid(desiredLevel)
        n == IF rejected THEN 0
             ELSE ClicksNeeded(climState.driverSeatHeater, desiredLevel)
        wait == n * (DriverToggleDelay + DriverStepDelay)
    IN  /\ seatCalls < MaxSeatCalls
        /\ CallEffects(Clicks(DriverSeatPress, DriverSeatRelease, n), wait)
        /\ ctl' = CallRecord("setDriverSeatHeater", climBus, desiredLevel, "",
                             ~rejected, pat, climState.driverSeatHeater, wait)
        /\ seatCalls' = seatCalls + 1
        /\ SeatCallFrame

\* bool ClimateControl::setPassengerSeatHeater(uint8_t desiredLevel)
SetPassengerSeatHeater(desiredLevel, pat) ==
    LET rejected == ~climBus \/ SeatLevelInvalid(desiredLevel)
        n == IF rejected THEN 0
             ELSE ClicksNeeded(climState.passengerSeatHeater, desiredLevel)
        wait == IF n = 0 THEN 0
                ELSE n * BUTTON_PRESS_DURATION_MS
                     + (n - 1) * BUTTON_PRESS_DURATION_MS
    IN  /\ seatCalls < MaxSeatCalls
        /\ CallEffects(Clicks(PassengerSeatPress, PassengerSeatRelease, n), wait)
        /\ ctl' = CallRecord("setPassengerSeatHeater", climBus, desiredLevel, "",
                             ~rejected, pat, climState.passengerSeatHeater, wait)
        /\ seatCalls' = seatCalls + 1
        /\ SeatCallFrame

\* first payload bytes of the seat-heater status frames seen on the bus
SeatBytes == {0, 16, 32, 48, 63, 80}

\* ClimateControl::onCanFrameReceived with a 0x232 or 0x22a frame; a run
\* ends with its last seat-heater call
OnSeatFrame ==
    /\ seatCalls < MaxSeatCalls
    /\ \E id \in {562, 554}, b \in SeatBytes, len \in {0, 1} :
          climState' = ClimateParseCanFrame(climState, id, Payload(<<b>>), len)
    /\ UNCHANGED <<clockVars, carVars, domeObs, keyVars, keyObs, climBus,
                   ctlObs, decVars, logVars>>

(***************************************************************************)
(* CarControl: the control calls that write one or two frames              *)
(***************************************************************************)
\* what a CarControl control call leaves alone
CtlCallFrame ==
    UNCHANGED <<canBus, carState, pending, active, pressTime, updateFunctions,
                domeObs, keyVars, keyObs, climVars, seatCalls, decVars, logVars>>

\* a call that builds one frame and returns sendCanFrame's result:
\* if (!canBus) return false; ...; return sendCanFrame(id, data, len);
OneFrameCall(op, arg, pos, frame, pat) ==
    /\ ctlCalls < MaxCtlCalls
    /\ CallEffects(IF canBus THEN <<frame>> ELSE <<>>, 0)
    /\ ctl' = CallRecord(op, canBus, arg, pos, canBus /\ WriteOk(pat, 1), pat,
                         0, 0)
    /\ ctlCalls' = ctlCalls + 1
    /\ CtlCallFrame

\* bool CarControl::setWindow(uint8_t windowMask, WindowPosition pos)
SetWindow(windowMask, pos, pat) ==
    OneFrameCall("setWindow", windowMask, pos, SetWindowFrame(windowMask, pos), pat)

\* uint16_t rawRPM = rpm * 4
RawRPM(rpm) == (rpm * 4) % 65536

\* the frame sendFakeRPM builds, with the RPM bytes swapped
FakeRPMFrameBigEndian(rpm) ==
    TxFrame(170, <<0, 0, 255, 0, (RawRPM(rpm) \div 256) % 256,
                   RawRPM(rpm) % 256, 0, 0>>, 8)

\* the frame sendFakeRPM builds
FakeRPMFrame(rpm) ==
    TxFrame(170, <<0, 0, 255, 0, RawRPM(rpm) % 256,
                   (RawRPM(rpm) \div 256) % 256, 0, 0>>, 8)

\* bool CarControl::sendFakeRPM(uint16_t rpm)
SendFakeRPM(rpm, pat) == OneFrameCall("sendFakeRPM", rpm, "", FakeRPMFrame(rpm), pat)

\* bool CarControl::spoofReverseLights()
SpoofReverseLights(pat) ==
    OneFrameCall("spoofReverseLights", 0, "", TxFrame(772, <<194, 255>>, 2), pat)

\* bool CarControl::error(uint16_t name)
Error(name, pat) ==
    OneFrameCall("error", name, "",
                 TxFrame(824, <<name % 256, (name \div 256) % 256, 32, 240, 0,
                                254, 254, 254>>, 8),
                 pat)

\* delay(completelyOff ? 1000 : 80)
TractionDelay(completelyOff) == IF completelyOff THEN 1000 ELSE 80

\* bool CarControl::toggleTractionControl(bool completelyOff)
ToggleTractionControl(completelyOff, pat) ==
    /\ ctlCalls < MaxCtlCalls
    /\ IF canBus
       THEN CallEffects(<<TxFrame(790, <<253, 255>>, 2),
                          TxFrame(790, <<252, 255>>, 2)>>,
                        TractionDelay(completelyOff))
       ELSE CallEffects(<<>>, 0)
    /\ ctl' = CallRecord("toggleTractionControl", canBus,
                         IF completelyOff THEN 1 ELSE 0, "", canBus, pat, 0,
                         IF canBus THEN TractionDelay(completelyOff) ELSE 0)
    /\ ctlCalls' = ctlCalls + 1
    /\ CtlCallFrame

\* arguments of the control calls
WindowMasks == 0..15

WindowPositions == {"WINDOW_ROLL_UP", "WINDOW_ROLL_DOWN", "WINDOW_NEUTRAL"}

FakeRPMs == {0, 400, 401, 2000, 16383, 16384, 20000}

ErrorNames == {0, 513}

\* no control call has been made, no frame is being decoded
InitCalls ==
    /\ ctl = [op |-> "none", bus |-> FALSE, arg |-> 0, pos |-> "", ret |-> FALSE,
              pat |-> [first |-> TRUE, rest |-> TRUE], from |-> 0, level |-> 0,
              wait |-> 0]
    /\ seatCalls = 0
    /\ ctlCalls = 0

(***************************************************************************)
(* CarControl::parseCanFrame: the decode rules of the vehicle snapshot     *)
(***************************************************************************)
\* conversion to int16_t
S16(x) == IF x % 65536 > 32767 THEN (x % 65536) - 65536 ELSE x % 65536

\* conversion to int8_t
S8(x) == IF x % 256 > 127 THEN (x % 256) - 256 ELSE x % 256

\* uint8_t CarControl::getNibble(uint8_t byte, uint8_t nibbleIndex) const
GetNibble(byte, nibbleIndex) ==
    IF nibbleIndex = 0 THEN byte % 16 ELSE (byte \div 16) % 16

\* uint8_t min(uint8_t a, uint8_t b)
Min8(a, b) == IF a > b THEN b ELSE a

\* (data[hi] << 8) | data[lo]
Word(data, lo, hi) == data[hi] * 256 + data[lo]

\* case 0x0a8 with the torque guarded like the braking flag
Parse_0x0a8_TorqueEarly(st, data, len) ==
    IF len > 1
    THEN [st EXCEPT !.braking = (GetNibble(data[1], 1) = 6),
                    !.torque = Ratio(S16(Word(data, 1, 2)), 32)]
    ELSE st

\* case 0x0a8: braking, torque
Parse_0x0a8(st, data, len) ==
    LET s1 == IF len > 1
              THEN [st EXCEPT !.braking = (GetNibble(data[1], 1) = 6)] ELSE st
    IN  IF len > 2
        THEN [s1 EXCEPT !.torque = Ratio(S16(Word(data, 1, 2)), 32)]
        ELSE s1

\* the throttle scale without the clamp to 254
ThrottleUnclamped(rawThrottle) ==
    IF rawThrottle <= 255 THEN 0
    ELSE U8(((rawThrottle - 255) * 254) \div 64809)

\* case 0x0aa, no kickdown: the raw range 255-65064 scaled to 0-254
ThrottleScaled(rawThrottle) ==
    IF rawThrottle <= 255 THEN 0
    ELSE LET scaled == ((rawThrottle - 255) * 254) \div 64809
         IN  IF scaled > 254 THEN 254 ELSE scaled

\* bool kickdown = (len > 6 && data[6] == 0xB4)
Kickdown(data, len) == len > 6 /\ data[6] = 180

\* case 0x0aa: engine RPM and throttle position
Parse_0x0aa(st, data, len) ==
    LET s1 == IF len > 5
              THEN [st EXCEPT !.engineRPM = Word(data, 4, 5) \div 4] ELSE st
    IN  IF len > 3
        THEN [s1 EXCEPT !.throttlePosition =
                           IF Kickdown(data, len) THEN 255
                           ELSE ThrottleScaled(Word(data, 2, 3))]
        ELSE s1

\* the raw angle taken as it is, with no sign
SignedAngleUnsigned(rawAngle) == rawAngle

\* int16_t signedAngle = (rawAngle > 32767) ? (rawAngle - 65536) : rawAngle
SignedAngle(rawAngle) ==
    S16(IF rawAngle > 32767 THEN rawAngle - 65536 ELSE rawAngle)

\* the steering rule also clearing the lock flag, a field of the 0x0e2 rule
Parse_0x0c8_ClearsLock(st, data, len) ==
    IF len > 1
    THEN [st EXCEPT !.steeringWheelAngle =
                       Ratio(SignedAngle(Word(data, 0, 1)), 23),
                    !.doorLocked = FALSE]
    ELSE st

\* case 0x0c8: steering wheel angle
Parse_0x0c8(st, data, len) ==
    IF len > 1
    THEN [st EXCEPT !.steeringWheelAngle =
                       Ratio(SignedAngle(Word(data, 0, 1)), 23)]
    ELSE st

\* uint16_t rawRange = (data[7] << 8) | data[6]
RawRange(data) == Word(data, 6, 7)

\* case 0x330: odometer, fuel, range
Parse_0x330(st, data, len) ==
    LET s1 == IF len > 2
              THEN [st EXCEPT !.odometer =
                                 data[2] * 65536 + data[1] * 256 + data[0]]
              ELSE st
        s2 == IF len > 3 THEN [s1 EXCEPT !.fuelLevel = data[3]] ELSE s1
    IN  IF len > 7
        THEN [s2 EXCEPT !.range = Ratio(RawRange(data), 16)]
        ELSE s2

\* case 0x3b4: battery voltage and engine status
Parse_0x3b4(st, data, len) ==
    LET s1 == IF len > 1
              THEN [st EXCEPT !.batteryVoltage =
                                 Ratio(Word(data, 0, 1) - 61440, 68)]
              ELSE st
    IN  IF len > 2
        THEN [s1 EXCEPT !.engineFlagFromCAN = (data[2] = 0)]
        ELSE s1

\* (min(data[0], 0x50) * 255) / 0x50
WindowPos(byte) == (Min8(byte, 80) * 255) \div 80

\* a placeholder that keeps the first payload byte
UpdateFrame_Stores(st, frame) == [st EXCEPT !.gearPositionRaw = frame.data[0]]

\* void CarControl::updateFrame_0x0ea / updateFrame_0x0ee(const CANFrame& frame)
UpdateFrame_Placeholder(st, frame) == st

\* void CarControl::parseCanFrame(uint16_t id, const uint8_t* data, uint8_t len)
ParseCanFrame(st, id, data, len) ==
    IF len = 0 THEN st
    ELSE
    CASE id = 168 -> Parse_0x0a8(st, data, len)
      [] id = 170 -> Parse_0x0aa(st, data, len)
      [] id = 304 ->
            IF len > 0
            THEN [st EXCEPT !.keyStateRaw = data[0], !.keyStateAvailable = TRUE]
            ELSE st
      [] id = 417 ->
            IF len > 3
            THEN [st EXCEPT !.speed = Ratio(Word(data, 2, 3), 100)] ELSE st
      [] id = 200 -> Parse_0x0c8(st, data, len)
      [] id = 226 -> [st EXCEPT !.doorLocked = (data[0] = 2)]
      [] id = 230 ->
            IF len > 2 THEN [st EXCEPT !.doorOpen = (data[2] = 253)] ELSE st
      [] id = 246 -> [st EXCEPT !.mirrorsRetracted = (data[0] = 243)]
      [] id = 436 ->
            IF len > 5 THEN [st EXCEPT !.parkingBrakeOn = (data[5] = 50)] ELSE st
      [] id = 464 ->
            IF len > 0 THEN [st EXCEPT !.engineTemp = S8(data[0] - 48)] ELSE st
      [] id = 470 -> Parse_0x1d6(st, data, len)
      [] id = 481 ->
            IF len > 2
            THEN [st EXCEPT !.driverDoorOpen = (GetNibble(data[2], 0) = 1)]
            ELSE st
      [] id = 646 -> Parse_0x286(st, data, len)
      [] id = 690 ->
            IF len > 0
            THEN [st EXCEPT !.brakeStatus = (Min8(data[0], 128) * 255) \div 128]
            ELSE st
      [] id = 753 ->
            IF len > 2
            THEN [st EXCEPT !.seatBeltPlugged = (GetNibble(data[2], 0) % 2 > 0)]
            ELSE st
      [] id = 764 ->
            IF len > 1
            THEN [st EXCEPT !.doorOpenDriverFront = GetBit(data[1], 0),
                            !.doorOpenPassengerFront = GetBit(data[1], 2),
                            !.doorOpenDriverRear = GetBit(data[1], 4),
                            !.doorOpenPassengerRear = GetBit(data[1], 6)]
            ELSE st
      [] id = 772 ->
            IF len > 0 THEN [st EXCEPT !.gearPositionRaw = data[0]] ELSE st
      [] id = 816 -> Parse_0x330(st, data, len)
      [] id = 948 -> Parse_0x3b4(st, data, len)
      [] id = 950 ->
            IF len > 0
            THEN [st EXCEPT !.windowPosDriverFront = WindowPos(data[0])] ELSE st
      [] id = 951 ->
            IF len > 0
            THEN [st EXCEPT !.windowPosDriverRear = WindowPos(data[0])] ELSE st
      [] id = 952 ->
            IF len > 0
            THEN [st EXCEPT !.windowPosPassengerFront = WindowPos(data[0])]
            ELSE st
      [] id = 953 ->
            IF len > 0
            THEN [st EXCEPT !.windowPosPassengerRear = WindowPos(data[0])]
            ELSE st
      [] id \in {234, 238} ->
            UpdateFrame_Placeholder(st, [id |-> id, dlc |-> len, data |-> data])
      [] OTHER -> st

\* every identifier one of the two parseCanFrame switches has a case for
CarRuleIds ==
    {168, 170, 304, 417, 200, 226, 230, 246, 436, 464, 470, 481, 646, 690,
     753, 764, 772, 816, 948, 950, 951, 952, 953}

ClimateRuleIds == {742, 746, 578, 562, 554}

PlaceholderIds == {234, 238}

\* identifiers neither switch has a case for
UnknownIds == {0, 291, 2047}

\* the bytes the decoded payloads are made of
DecodeBytes == {0, 1, 2, 40, 50, 96, 127, 128, 180, 243, 253, 255}

\* payloads lo hi lo hi lo hi lo hi, the AUTO blower pattern, the frames
\* sendFakeRPM builds, and the key positions of 0x130
DecodePayloads ==
    {Payload(<<lo, hi, lo, hi, lo, hi, lo, hi>>) : lo, hi \in DecodeBytes}
    \cup {Payload(<<0, 100, 30, 0, 0, 5, 0, 40>>)}
    \cup {Payload(FakeRPMFrame(rpm).data) : rpm \in FakeRPMs}
    \cup {Payload(<<key>>) : key \in {64, 65, 69, 85}}

\* one earlier frame per decode rule, each leaving its fields away from zero
PrimeFrames ==
    << [id |-> 168, data |-> Payload(<<0, 97, 1>>)],
       [id |-> 170, data |-> Payload(<<0, 0, 16, 128, 64, 31, 0, 0>>)],
       [id |-> 304, data |-> Payload(<<69>>)],
       [id |-> 417, data |-> Payload(<<0, 0, 136, 19>>)],
       [id |-> 200, data |-> Payload(<<23, 0>>)],
       [id |-> 226, data |-> Payload(<<2>>)],
       [id |-> 230, data |-> Payload(<<0, 0, 253>>)],
       [id |-> 246, data |-> Payload(<<243>>)],
       [id |-> 436, data |-> Payload(<<0, 0, 0, 0, 0, 50>>)],
       [id |-> 464, data |-> Payload(<<138>>)],
       [id |-> 470, data |-> Payload(<<8, 1>>)],
       [id |-> 481, data |-> Payload(<<0, 0, 1>>)],
       [id |-> 646, data |-> Payload(<<0, 100>>)],
       [id |-> 690, data |-> Payload(<<64>>)],
       [id |-> 753, data |-> Payload(<<0, 0, 1>>)],
       [id |-> 764, data |-> Payload(<<0, 85>>)],
       [id |-> 772, data |-> Payload(<<120>>)],
       [id |-> 816, data |-> Payload(<<16, 39, 1, 45, 0, 0, 64, 6>>)],
       [id |-> 948, data |-> Payload(<<84, 243, 0>>)],
       [id |-> 950, data |-> Payload(<<48>>)],
       [id |-> 951, data |-> Payload(<<48>>)],
       [id |-> 952, data |-> Payload(<<48>>)],
       [id |-> 953, data |-> Payload(<<48>>)],
       [id |-> 742, data |-> Payload(<<1, 0, 1, 0, 0, 3, 0, 48>>)],
       [id |-> 746, data |-> Payload(<<0, 0, 0, 0, 0, 0, 0, 48>>)],
       [id |-> 578, data |-> Payload(<<17, 0, 241>>)],
       [id |-> 562, data |-> Payload(<<32>>)],
       [id |-> 554, data |-> Payload(<<48>>)] >>

\* the vehicle snapshot after the first n frames of a run were decoded
RECURSIVE PrimedCar(_, _)
PrimedCar(frames, n) ==
    IF n = 0 THEN ZeroCarState
    ELSE ParseCanFrame(PrimedCar(frames, n - 1), frames[n].id, frames[n].data, 8)

\* the climate snapshot after the first n frames of a run were decoded
RECURSIVE PrimedClim(_, _)
PrimedClim(frames, n) ==
    IF n = 0 THEN ZeroClimState
    ELSE ClimateParseCanFrame(PrimedClim(frames, n - 1), frames[n].id,
                              frames[n].data, 8)

\* earlier runs of frames: none, the frames above, the frames above on a
\* vehicle that sends no 0x130, and the frames above followed by an engine
\* speed of 400
PrimeRuns ==
    { <<>>,
      PrimeFrames,
      SelectSeq(PrimeFrames, LAMBDA f : f.id # 304),
      Append(PrimeFrames, [id |-> 170, data |-> Payload(FakeRPMFrame(400).data)]) }

\* the snapshots a decode starts from: as constructed, or after one of
\* these runs
StartSnapshots ==
    { [car |-> PrimedCar(run, Len(run)), clim |-> PrimedClim(run, Len(run))] :
        run \in PrimeRuns }

\* KeyState CarControl::getKeyState() const
GetKeyState(st) ==
    IF ~st.keyStateAvailable THEN "KEY_ENGINE_OFF"
    ELSE CASE st.keyStateRaw = 0 -> "KEY_ENGINE_OFF"
           [] st.keyStateRaw = 64 -> "KEY_INSERTING"
           [] st.keyStateRaw = 65 -> "KEY_POSITION_1"
           [] st.keyStateRaw = 69 -> "KEY_POSITION_2"
           [] st.keyStateRaw = 85 -> "KEY_CRANKING"
           [] OTHER -> "KEY_ENGINE_OFF"

\* the two sources of the engine status merged
IsEngineRunningMerged(st) ==
    /\ \/ GetKeyState(st) \in {"KEY_POSITION_2", "KEY_CRANKING"}
       \/ st.engineFlagFromCAN
    /\ st.engineRPM > 400

\* bool CarControl::isEngineRunning() const
IsEngineRunning(st) ==
    IF st.keyStateAvailable
    THEN GetKeyState(st) \in {"KEY_POSITION_2", "KEY_CRANKING"} /\ st.engineRPM > 400
    ELSE st.engineFlagFromCAN /\ st.engineRPM > 400

\* the ignition status with the running test at 400 and above
GetIgnitionStatusFrom400(st) ==
    IF st.engineRPM >= 400 THEN "IGNITION_RUNNING"
    ELSE IF st.keyStateAvailable
    THEN IF GetKeyState(st) \in {"KEY_ENGINE_OFF", "KEY_INSERTING", "KEY_POSITION_1"}
         THEN "IGNITION_OFF" ELSE "IGNITION_SECOND"
    ELSE IF ~st.engineFlagFromCAN THEN "IGNITION_OFF" ELSE "IGNITION_SECOND"

\* IgnitionStatus CarControl::getIgnitionStatus() const
GetIgnitionStatus(st) ==
    IF st.engineRPM > 400 THEN "IGNITION_RUNNING"
    ELSE IF st.keyStateAvailable
    THEN IF GetKeyState(st) \in {"KEY_ENGINE_OFF", "KEY_INSERTING", "KEY_POSITION_1"}
         THEN "IGNITION_OFF" ELSE "IGNITION_SECOND"
    ELSE IF ~st.engineFlagFromCAN THEN "IGNITION_OFF" ELSE "IGNITION_SECOND"

\* loop(): carControl->onCanFrameReceived(frame);
\* climateControl->onCanFrameReceived(frame);
DecodeFrame ==
    /\ decPc = "start"
    /\ carState' = ParseCanFrame(carState, decIn.id, decIn.data, decIn.len)
    /\ climState' = ClimateParseCanFrame(climState, decIn.id, decIn.data, decIn.len)
    /\ decPc' = "done"
    /\ UNCHANGED <<queueVars, clockVars, canBus, pending, active, pressTime,
                   updateFunctions, tx, domeObs, keyVars, keyObs, climBus,
                   ctlObs, decIn, carBefore, climBefore, logVars>>

\* no frame is being decoded
InitDecodeIdle ==
    /\ decIn = [id |-> 0, data |-> Payload(<<>>), len |-> 0]
    /\ decPc = "idle"
    /\ carBefore = ZeroCarState
    /\ climBefore = ZeroClimState

(***************************************************************************)
(* Frame intake: the interrupt handler and the frame read of loop()        *)
(***************************************************************************)
\* Logger's statics: zero-initialised storage, logHead = 0, logTail = 0.
\* Logger::bufferLogEntry and Logger::processNextLog have no caller, so no
\* step of the program changes them.
InitLogger ==
    /\ logBuffer = [s \in 0..(LOG_BUFFER_SIZE - 1) |->
                      [frame |-> ZeroFrame, timestamp |-> <<0, 0>>]]
    /\ logHead = 0
    /\ logTail = 0

\* an interrupt handler that also decodes the frame it enqueues
CanISRDecodes ==
    /\ HandleInterrupt
    /\ LET f == ReadFrame(arrivals, 0)
       IN  carState' = ParseCanFrame(carState, f.id, f.data, f.dlc)
    /\ UNCHANGED <<clockVars, canBus, pending, active, pressTime,
                   updateFunctions, tx, domeObs, keyVars, keyObs, climVars,
                   ctlObs, decVars, logVars>>

\* canISR(): if (g_canBus) g_canBus->handleInterrupt(); with the handler
\* attached as CANBus::initInterrupt attaches it
CanISR == HandleInterrupt /\ QueueOnly

\* loop(): CANFrame frame; if (can.read(frame)) with a successful read.  The
\* frame comes from the transceiver; the bytes beyond dlc keep what the
\* stack held.  decIn is loop()'s local frame.
LoopRead ==
    /\ canBus
    /\ decPc # "start"
    /\ arrivals < MaxIntake
    /\ \E g \in (IF ArrivalDlc(arrivals) < 8 THEN StackBytes ELSE {0}) :
          LET f == ReadFrame(arrivals, g)
          IN  decIn' = [id |-> f.id, data |-> f.data, len |-> f.dlc]
    /\ arrivals' = arrivals + 1
    /\ decPc' = "start"
    /\ carBefore' = carState
    /\ climBefore' = climState
    /\ UNCHANGED <<buffer, bufferHead, bufferTail, gpc, gi, rx, accepted,
                   returned, lastPut, lastGet, burst, burstClean, drainCount,
                   preempted, clobber, clockVars, carVars, domeObs, keyVars,
                   keyObs, climVars, ctlObs, logVars>>

(***************************************************************************)
(* Specifications                                                          *)
(***************************************************************************)
\* the components nothing is said about in a run start as constructed
InitIdle == InitClimate /\ InitCalls /\ InitDecodeIdle /\ InitLogger

InitQ == InitQueue /\ InitCar /\ InitKeys /\ InitIdle /\ t = 0 /\ now = <<0, 0>>

InitTimed ==
    InitQueue /\ InitCar /\ InitKeys /\ InitIdle /\ t = 0 /\ now \in MillisStarts

\* the loop booted 300 ms before millis() wraps
InitLoop ==
    InitQueue /\ InitCar /\ InitKeys /\ InitIdle /\ t = 0 /\ now = <<65535, 65236>>

NextQueue ==
    \/ HandleInterrupt /\ QueueOnly
    \/ HandleInterruptNoFrame
    \/ BufferGetCheck /\ QueueOnly
    \/ BufferGetId /\ QueueOnly
    \/ BufferGetDlc /\ QueueOnly
    \/ BufferGetData /\ QueueOnly
    \/ BufferGetTail /\ QueueOnly

SpecQueue == InitQ /\ [][NextQueue]_vars


SetupOnly == UNCHANGED <<queueVars, ctlObs, decVars, logVars>>

DomeOnly == UNCHANGED <<queueVars, keyVars, keyObs, climVars, ctlObs, decVars, logVars>>

KeysOnly == UNCHANGED <<queueVars, climVars, ctlObs, decVars, logVars>>

NextDome ==
    \/ Setup /\ SetupOnly
    \/ CarUpdate /\ DomeOnly
    \/ \E on \in BOOLEAN : SetDomeLight(on) /\ DomeOnly
    \/ OnDomeFrame /\ DomeOnly
    \/ DomeClock /\ DomeOnly

SpecDome == InitTimed /\ [][NextDome]_vars

\* the sequencer in a loop that keeps calling update and whose clock keeps
\* advancing, on a bus that carries no dome-light status frame (the light
\* stays off in the snapshot, so every setDomeLight(true) arms the action)
NextDomeLive ==
    \/ Setup /\ SetupOnly
    \/ CarUpdate /\ DomeOnly
    \/ \E on \in BOOLEAN : SetDomeLight(on) /\ DomeOnly
    \/ DomeClockLive /\ DomeOnly

SpecDomeLive ==
    /\ InitTimed
    /\ [][NextDomeLive]_vars
    /\ WF_vars(CarUpdate /\ DomeOnly)
    /\ WF_vars(DomeClockLive /\ DomeOnly)

NextKeys ==
    \/ Setup /\ SetupOnly
    \/ KeysUpdate /\ KeysOnly
    \/ OnSteeringFrame /\ KeysOnly
    \/ KeysClock /\ KeysOnly

SpecKeys == InitTimed /\ [][NextKeys]_vars

\* The recognizer and the sequencer in one loop.  loop() after setup():
\* carControl->update(), customKeys->update(), then the call of a command
\* (setDomeLight has no caller in the repository; a command handler runs
\* where webServer->update() does), then the frame read from the
\* transceiver, if there is one; time passes before the next iteration
\* begins.
NextLoop ==
    \/ Setup /\ SetupOnly
    \/ CarUpdate /\ DomeOnly /\ lastAct # "update"
    \/ KeysUpdate /\ KeysOnly /\ lastAct = "update"
    \/ SetDomeLight(TRUE) /\ DomeOnly /\ lastAct = "keys" /\ arms < MaxLoopArms
    \/ OnSteeringFrame /\ KeysOnly /\ lastAct \in {"keys", "setDomeLight"}
    \/ KeysClock /\ KeysOnly /\ lastAct \in {"keys", "setDomeLight", "decode"}

SpecLoop == InitLoop /\ [][NextLoop]_vars

\* the recognizer in a loop that keeps calling update and whose clock keeps
\* advancing
NextKeysLive ==
    \/ Setup /\ SetupOnly
    \/ KeysUpdate /\ KeysOnly
    \/ OnSteeringFrame /\ KeysOnly
    \/ KeysClockLive /\ KeysOnly

SpecKeysLive ==
    /\ InitLoop
    /\ [][NextKeysLive]_vars
    /\ WF_vars(KeysUpdate /\ KeysOnly)
    /\ WF_vars(KeysClockLive /\ KeysOnly)

\* seat-heater stepping: setup, status frames, and the two set calls
ClimateOnly == UNCHANGED queueVars

SeatLevels == {0, 1, 2, 3, 4, 255}

NextClimate ==
    \/ Setup /\ SetupOnly
    \/ OnSeatFrame /\ ClimateOnly
    \/ \E d \in SeatLevels, pat \in WritePatterns :
          SetDriverSeatHeater(d, pat) /\ ClimateOnly
    \/ \E d \in SeatLevels, pat \in WritePatterns :
          SetPassengerSeatHeater(d, pat) /\ ClimateOnly

SpecClimate == InitQ /\ [][NextClimate]_vars

\* the one- and two-frame control calls of CarControl
NextControl ==
    \/ Setup /\ SetupOnly
    \/ \E m \in WindowMasks, pos \in WindowPositions, pat \in WritePatterns :
          SetWindow(m, pos, pat) /\ ClimateOnly
    \/ \E rpm \in FakeRPMs, pat \in WritePatterns :
          SendFakeRPM(rpm, pat) /\ ClimateOnly
    \/ \E pat \in WritePatterns : SpoofReverseLights(pat) /\ ClimateOnly
    \/ \E name \in ErrorNames, pat \in WritePatterns :
          Error(name, pat) /\ ClimateOnly
    \/ \E off \in BOOLEAN, pat \in WritePatterns :
          ToggleTractionControl(off, pat) /\ ClimateOnly

SpecControl == InitQ /\ [][NextControl]_vars

\* the intake: the interrupt handler may run between any two steps of
\* loop(), also between the frame read and the decode
NextIntake ==
    \/ Setup /\ SetupOnly
    \/ CanISR /\ arrivals < MaxIntake
    \/ LoopRead
    \/ DecodeFrame

SpecIntake == InitQ /\ [][NextIntake]_vars

\* one decode of one frame, from each start snapshot
InitDecode ==
    /\ InitQueue /\ InitCarStatics /\ InitKeys /\ InitCalls /\ InitLogger
    /\ t = 0 /\ now = <<0, 0>>
    /\ climBus = FALSE
    /\ \E snap \in StartSnapshots :
          /\ carState = snap.car
          /\ climState = snap.clim
          /\ carBefore = snap.car
          /\ climBefore = snap.clim
    /\ decPc = "start"
    /\ decIn \in [id : CarRuleIds \cup ClimateRuleIds \cup PlaceholderIds
                          \cup UnknownIds,
                   data : DecodePayloads,
                   len : 0..8]

NextDecode == DecodeFrame

SpecDecode == InitDecode /\ [][NextDecode]_vars

(***************************************************************************)
(* Frame Transport Queue: properties                                       *)
(***************************************************************************)
\* frames accepted and not yet returned
Pending == Len(accepted) - Len(returned)

IsPrefix(p, q) == /\ Len(p) <= Len(q)
                  /\ \A k \in 1..Len(p) : p[k] = q[k]

\* C1 as stated: from an empty queue, puts 1..32 with no get in between
\* return true, put 33 returns false, and draining after the rejected put
\* returns 32 frames.
C1_Capacity32 ==
    /\ burstClean =>
          \A k \in 1..Len(burst) : burst[k] = (k <= CAN_BUFFER_SIZE)
    /\ (lastPut = "full" /\ Pending = 0) => drainCount = CAN_BUFFER_SIZE

\* C1 amended: from an empty queue, puts 1..31 with no get in between
\* return true, put 32 (and every further one) returns false, and draining
\* after a rejected put returns exactly 31 frames: one slot of the 32 is
\* always left free.
C1_Capacity31 ==
    /\ burstClean =>
          \A k \in 1..Len(burst) : burst[k] = (k <= CAN_BUFFER_SIZE - 1)
    /\ (lastPut = "full" /\ Pending = 0) => drainCount = CAN_BUFFER_SIZE - 1

\* C1 witness: the queue was filled from empty, a put was rejected, and the
\* queue was then drained of its 31 frames.
C1_Witness ==
    /\ lastPut = "full"
    /\ Pending = 0
    /\ Len(accepted) = CAN_BUFFER_SIZE - 1
    /\ drainCount = CAN_BUFFER_SIZE - 1
    /\ lastGet = "empty"

\* C2: the frames returned by successful gets are, in order and with all
\* their fields, a prefix of the frames accepted by successful puts, and the
\* accepted frames not yet returned sit in the ring from bufferTail on, in
\* the order they were accepted (none reordered, duplicated, merged, lost).
C2_Fifo ==
    /\ IsPrefix(returned, accepted)
    /\ Pending = (bufferHead - bufferTail) % CAN_BUFFER_SIZE
    /\ \A j \in 1..Pending :
          buffer[(bufferTail + j - 1) % CAN_BUFFER_SIZE] = accepted[Len(returned) + j]

\* C2 witness: more frames were returned than the ring has slots, a short
\* frame among them, while another accepted frame waits.
C2_Witness ==
    /\ Len(returned) = CAN_BUFFER_SIZE + 1
    /\ Pending = 1
    /\ \E k \in 1..Len(returned) : returned[k].dlc < 8

\* C3: a put on a full queue returns false and leaves head, tail, every
\* slot and the accepted frames as they were; a get on an empty queue
\* returns false and leaves head, tail and the caller's frame as they were.
\* Either one is a single step that is always possible (it never waits).
C3_FullAndEmpty ==
    [][ /\ (arrivals' = arrivals + 1 /\ Pending = CAN_BUFFER_SIZE - 1) =>
              /\ lastPut' = "full"
              /\ UNCHANGED <<bufferHead, bufferTail, buffer, accepted, returned>>
        /\ (gpc = "idle" /\ arrivals' = arrivals /\ Pending = 0) =>
              /\ lastGet' = "empty"
              /\ gpc' = "idle"
              /\ UNCHANGED <<bufferHead, bufferTail, buffer, accepted, returned, rx>>
      ]_vars

\* C3 witness: a get found the queue empty, and later a put found it full
C3_Witness ==
    /\ lastGet = "empty"
    /\ lastPut = "full"
    /\ Pending = CAN_BUFFER_SIZE - 1
    /\ gpc = "idle"

\* the frame a get in progress is returning
Front == accepted[Len(returned) + 1]

\* C4: when the interrupt handler runs between any two steps of bufferGet,
\* the producer never writes the slot being read, that slot keeps holding
\* the oldest accepted frame not yet returned, the fields copied so far are
\* that frame's fields, and the frames returned stay a prefix of the frames
\* accepted.
C4_Preemption ==
    /\ ~clobber
    /\ IsPrefix(returned, accepted)
    /\ MidGet =>
          /\ Pending > 0
          /\ buffer[bufferTail] = Front
          /\ gpc \in {"dlc", "data", "tail"} => rx.id = Front.id
          /\ gpc \in {"data", "tail"} => rx.dlc = Front.dlc
          /\ gpc = "data" => \A i \in 0..(gi - 1) : rx.data[i] = Front.data[i]
          /\ gpc = "tail" => rx = Front

\* C4 witness: a get returned a frame although puts were accepted while it
\* was copying, on a queue that has wrapped around
C4_Witness ==
    /\ preempted
    /\ gpc = "idle"
    /\ lastGet = "ok"
    /\ Len(returned) > CAN_BUFFER_SIZE


(***************************************************************************)
(* Command Sequencer: properties                                           *)
(***************************************************************************)
\* entries of updateFunctions that are the dome-light step function
DomeInstances == {k \in 1..Len(updateFunctions) : updateFunctions[k] = DomeFn}

PressFrames == {k \in 1..Len(tx) : tx[k] = DomePressFrame}

\* a frame was sent in this step and the last one sent is f
SentLast(f) == Len(tx') > Len(tx) /\ tx'[Len(tx')] = f

\* C5: a setDomeLight(on) call made while (domeLightBrightness > 50) = on
\* returns true and changes neither the pending flag, nor the step's
\* statics, nor the active set, nor the frames sent; and press frames are
\* only ever sent in answer to calls that did arm the action, so such a
\* call causes no frame in any later tick either.
C5_NoOpArm ==
    /\ [](Cardinality(PressFrames) <= arms)
    /\ [][ (/\ lastAct' = "setDomeLight"
            /\ canBus
            /\ (carState.domeLightBrightness > 50) = callOn') =>
              /\ callResult' = TRUE
              /\ UNCHANGED <<pending, active, pressTime, updateFunctions, tx, arms>>
       ]_vars

\* C5 witness: after a completed sequence, a call asks for the state the
\* light is already in and returns true
C5_Witness ==
    /\ lastAct = "setDomeLight"
    /\ canBus
    /\ callOn = (carState.domeLightBrightness > 50)
    /\ callResult
    /\ ~pending
    /\ Len(tx) = 2

\* C6: the update that finds the action re-armed while its step is active
\* records a new start time, sends the press frame again, stays active and
\* leaves exactly one instance of the step in the active set; the release
\* frame of a re-armed sequence is sent no earlier than 200 ms after that
\* restart; a release frame always directly follows a press frame, so one
\* release frame ends the sequence.
C6_Rearm ==
    /\ [](Cardinality(DomeInstances) <= 1)
    /\ [](\A k \in 1..Len(tx) :
             tx[k] = DomeReleaseFrame => (k > 1 /\ tx[k - 1] = DomePressFrame))
    /\ [][ (lastAct' = "update" /\ pending /\ active) =>
              /\ pressTime' = now
              /\ active'
              /\ tx' = Append(tx, DomePressFrame)
              /\ updateFunctions' = <<DomeFn>>
       ]_vars
    /\ [][ (restarted /\ SentLast(DomeReleaseFrame)) =>
              /\ t - lastPressT >= BUTTON_PRESS_DURATION_MS
              /\ tx' = Append(tx, DomeReleaseFrame)
              /\ ~active'
              /\ updateFunctions' = <<>>
       ]_vars

\* C6 witness: press, re-arm and second press, then the one release, 200 ms
\* or more after the restart
C6_Witness ==
    /\ tx = <<DomePressFrame, DomePressFrame, DomeReleaseFrame>>
    /\ ~active
    /\ t - lastPressT >= BUTTON_PRESS_DURATION_MS

\* C7: the update that finds the pending flag set sends exactly the press
\* frame (0x1e3, dlc 2, F1 FF), records the start time and marks the step
\* active; an update with no new arm pending at which less than 200 ms have
\* passed since the press sends nothing and keeps the step; the first one at
\* which 200 ms or more have passed sends exactly the release frame
\* (F0 FF), clears active and drops the step; no release frame is sent less
\* than 200 ms after the latest press frame.
C7_PressRelease ==
    /\ [][ (lastAct' = "update" /\ pending) =>
              /\ tx' = Append(tx, [id |-> 483, dlc |-> 2, data |-> <<241, 255>>])
              /\ pressTime' = now
              /\ active'
              /\ ~pending'
              /\ updateFunctions' = <<DomeFn>>
       ]_vars
    /\ [][ (/\ lastAct' = "update" /\ ~pending /\ active
            /\ t - lastPressT < BUTTON_PRESS_DURATION_MS) =>
              /\ tx' = tx
              /\ active'
              /\ updateFunctions' = <<DomeFn>>
       ]_vars
    /\ [][ (/\ lastAct' = "update" /\ ~pending /\ active
            /\ t - lastPressT >= BUTTON_PRESS_DURATION_MS) =>
              /\ tx' = Append(tx, [id |-> 483, dlc |-> 2, data |-> <<240, 255>>])
              /\ ~active'
              /\ updateFunctions' = <<>>
       ]_vars
    /\ [][ SentLast(DomeReleaseFrame) =>
              t - lastPressT >= BUTTON_PRESS_DURATION_MS ]_vars

\* C7 witness: a press and its release exactly 200 ms later, the millisecond
\* counter having wrapped in between
C7_Witness ==
    /\ tx = <<DomePressFrame, DomeReleaseFrame>>
    /\ ~active
    /\ lastAct = "update"
    /\ t - lastPressT = BUTTON_PRESS_DURATION_MS
    /\ pressTime[1] = Half - 1
    /\ now[1] = 0


(***************************************************************************)
(* Gesture properties (SpecKeys)                                           *)
(***************************************************************************)
Kinds(f) == {f[i].kind : i \in 1..Len(f)}

\* an update of the recognizer is taking place
KeysTick == lastAct' = "keys" /\ keysCar

\* the record is a short press that has not been followed by anything: the
\* signal rose, fell less than 800 ms later and has stayed low since
ShortPressRecord ==
    ~missed /\ Len(sig) = 2 /\ sig[2] - sig[1] < LONG_PRESS_THRESHOLD

\* C8: after a rise, a fall less than 800 ms later and no further change,
\* every change being sampled by an update, exactly one single-press action is
\* invoked, by the first update at which at least 400 ms have passed since the
\* update that sampled the release, and no double-press or long-press action
\* is invoked: nothing but one single press is ever on record, it is dated at
\* least 400 ms after the sampled release, until then the recognizer waits,
\* and an update that finds the 400 ms elapsed invokes it.
C8_SinglePress ==
    /\ [](ShortPressRecord =>
            /\ Kinds(fired) \subseteq {"single"}
            /\ Len(fired) <= 1
            /\ fired # <<>> =>
                  /\ Len(samp) = 2
                  /\ fired[1].at - samp[2] >= DOUBLE_PRESS_WINDOW
                  /\ keyState = "IDLE"
            /\ (Len(samp) = 2 /\ fired = <<>>) =>
                  keyState = "WAITING_FOR_SECOND_PRESS")
    /\ [][(/\ KeysTick
           /\ ShortPressRecord
           /\ Len(samp) = 2
           /\ fired = <<>>
           /\ t - samp[2] >= DOUBLE_PRESS_WINDOW)
          => fired' = <<[kind |-> "single", at |-> t]>>]_vars

\* a single press invoked exactly 400 ms after the sampled release of a
\* press that was held for a while
C8_Witness ==
    /\ ShortPressRecord
    /\ Len(samp) = 2
    /\ sig[2] > sig[1]
    /\ fired = <<[kind |-> "single", at |-> samp[2] + DOUBLE_PRESS_WINDOW]>>
    /\ Len(tx) >= 2

\* the record is a short press followed by a second rise that an update
\* sampled less than 400 ms after the update that sampled the first release
SecondPressRecord ==
    /\ ~missed
    /\ Len(sig) \in {3, 4}
    /\ Len(samp) >= 3
    /\ sig[2] - sig[1] < LONG_PRESS_THRESHOLD
    /\ samp[3] - samp[2] < DOUBLE_PRESS_WINDOW

\* C9: after a rise, a fall before 800 ms, a second rise sampled less than
\* 400 ms after the sampled first release, and a second fall, exactly one
\* double-press action is invoked, by the update that samples the second
\* release, however long the second press was held, and no single-press or
\* long-press action is invoked for the gesture.
C9_DoublePress ==
    SecondPressRecord =>
        /\ Kinds(fired) \subseteq {"double"}
        /\ Len(fired) <= 1
        /\ Len(samp) = 3 => (fired = <<>> /\ keyState = "SECOND_PRESS_DOWN")
        /\ Len(samp) = 4 =>
              /\ fired = <<[kind |-> "double", at |-> samp[4]]>>
              /\ keyState = "IDLE"

\* a double press invoked after a second press held for 800 ms or more
C9_Witness ==
    /\ SecondPressRecord
    /\ Len(samp) = 4
    /\ samp[4] - samp[3] >= LONG_PRESS_THRESHOLD
    /\ fired = <<[kind |-> "double", at |-> samp[4]]>>
    /\ tx # <<>>

\* the record is a press that is still held
HeldRecord == ~missed /\ Len(sig) = 1 /\ Len(samp) = 1

\* the record is a press released after its long-press action was invoked
LongReleasedRecord ==
    ~missed /\ Len(sig) >= 2 /\ fired # <<>> /\ fired[1].kind = "long"

\* C10: while the button stays high after a rise, exactly one long-press
\* action is invoked, by the first update at which at least 800 ms have passed
\* since the update that sampled the press, and it is not invoked again by
\* later updates; the release that follows returns the recognizer to IDLE
\* with no single-press or double-press action.
C10_LongPress ==
    /\ [](HeldRecord =>
            /\ Kinds(fired) \subseteq {"long"}
            /\ Len(fired) <= 1
            /\ fired # <<>> =>
                  /\ fired[1].at - samp[1] >= LONG_PRESS_THRESHOLD
                  /\ keyState = "LONG_PRESS_ACTIVE"
            /\ fired = <<>> => keyState = "FIRST_PRESS_DOWN")
    /\ [](LongReleasedRecord =>
            /\ Len(fired) = 1
            /\ Len(samp) >= 2 => keyState = "IDLE")
    /\ [][(/\ KeysTick
           /\ HeldRecord
           /\ fired = <<>>
           /\ t - samp[1] >= LONG_PRESS_THRESHOLD)
          => fired' = <<[kind |-> "long", at |-> t]>>]_vars
    /\ [][(KeysTick /\ HeldRecord /\ fired # <<>>)
          => (fired' = fired \/ ~HeldRecord')]_vars

\* a long press invoked exactly 800 ms after the sampled press, polled again
\* later and then released
C10_Witness ==
    /\ LongReleasedRecord
    /\ Len(sig) = 2
    /\ Len(samp) = 2
    /\ fired = <<[kind |-> "long", at |-> samp[1] + LONG_PRESS_THRESHOLD]>>
    /\ samp[2] > fired[1].at
    /\ keyState = "IDLE"


(***************************************************************************)
(* Control-call properties (SpecClimate, SpecControl)                      *)
(***************************************************************************)
SeatOps == {"setDriverSeatHeater", "setPassengerSeatHeater"}

\* the frames the latest control call handed to the transceiver
CallFrames == SubSeq(tx, ctl.from + 1, Len(tx))

\* the position of a level in the forward cycle 0 -> 3 -> 2 -> 1 -> 0
CyclePos(level) ==
    CASE level = 0 -> 0
      [] level = 3 -> 1
      [] level = 2 -> 2
      [] level = 1 -> 3

\* the identifier a seat-heater call presses its button on
SeatButtonId == IF ctl.op = "setDriverSeatHeater" THEN 487 ELSE 488

\* C11: with the current level c and the desired level d both in 0..3, a
\* seat-heater call issues exactly (pos(d) - pos(c)) mod 4 toggle steps, each
\* one press frame followed by one release frame, and returns true; with
\* c = d it sends nothing.
C11_SeatSteps ==
    (ctl.op \in SeatOps /\ ctl.bus /\ ctl.level \in 0..3 /\ ctl.arg \in 0..3) =>
        LET n == (CyclePos(ctl.arg) - CyclePos(ctl.level)) % 4
        IN  /\ ctl.ret
            /\ Len(CallFrames) = 2 * n
            /\ \A k \in 1..n :
                  /\ CallFrames[2 * k - 1].id = SeatButtonId
                  /\ CallFrames[2 * k - 1].data[1] = 253
                  /\ CallFrames[2 * k].id = SeatButtonId
                  /\ CallFrames[2 * k].data[1] = 252
            /\ (ctl.level = ctl.arg) => (tx = SubSeq(tx, 1, ctl.from))

\* from level 2 to level 0: two steps
C11_Witness ==
    /\ ctl.op = "setDriverSeatHeater"
    /\ ctl.bus
    /\ ctl.level = 2
    /\ ctl.arg = 0
    /\ ctl.ret
    /\ Len(CallFrames) = 4

\* C12: whatever level the decoded 0x232 / 0x22a frames left in the
\* snapshot and whatever level 0..3 is desired, a seat-heater call issues no
\* more than 3 press/release pairs.
C12_AtMostThreeSteps ==
    (ctl.op \in SeatOps /\ ctl.arg \in 0..3) => Len(CallFrames) <= 2 * 3

\* C13: a seat-heater call with a desired level above 3 returns false,
\* sends no frame and leaves the climate snapshot unchanged.
C13_InvalidLevel ==
    [][(seatCalls' = seatCalls + 1 /\ ctl'.arg > 3) =>
          /\ ~ctl'.ret
          /\ tx' = tx
          /\ climState' = climState]_vars

\* setPassengerSeatHeater(255) on an initialised object whose seat is heated
C13_Witness ==
    /\ ctl.op = "setPassengerSeatHeater"
    /\ ctl.bus
    /\ ctl.arg = 255
    /\ ctl.level = 3
    /\ ~ctl.ret
    /\ CallFrames = <<>>

\* some write of the latest control call was refused by the transceiver
SomeWriteFailed == \E k \in 1..Len(CallFrames) : ~WriteOk(ctl.pat, k)

\* C14: when the transceiver's write of a frame a control call sends returns
\* false, the control call returns false.
C14_FailurePropagated == (ctl.op # "none" /\ SomeWriteFailed) => ~ctl.ret


(***************************************************************************)
(* Decode properties (SpecDecode)                                          *)
(***************************************************************************)
\* the frame in decIn has been handed to both parseCanFrame functions
Decoded(id) == decPc = "done" /\ decIn.id = id

\* byte2 + 256 * byte3 of the decoded payload
RawThrottleIn == decIn.data[2] + 256 * decIn.data[3]

\* the payload carries a byte 6 and it is the kickdown marker 0xB4
MarkerPresent == decIn.len >= 7 /\ decIn.data[6] = 180

\* the smaller of two numbers
Minimum(a, b) == IF a < b THEN a ELSE b

\* C15: decoding a 0x0aa payload of length >= 4 sets the throttle to 255 when
\* the kickdown marker is present, otherwise to 0 when r <= 255 and to
\* min(254, floor((r - 255) * 254 / 64809)) when r > 255; a throttle of 255
\* is decoded only with the kickdown marker.
C15_Throttle ==
    (Decoded(170) /\ decIn.len >= 4) =>
        /\ carState.throttlePosition =
              IF MarkerPresent THEN 255
              ELSE IF RawThrottleIn <= 255 THEN 0
              ELSE Minimum(254, ((RawThrottleIn - 255) * 254) \div 64809)
        /\ (carState.throttlePosition = 255) => MarkerPresent

\* a kickdown frame whose raw throttle says foot off
C15_Witness ==
    /\ Decoded(170)
    /\ decIn.len = 8
    /\ MarkerPresent
    /\ RawThrottleIn <= 255
    /\ carBefore.throttlePosition # 255
    /\ carState.throttlePosition = 255

\* C16: decoding a 0x0aa payload of length >= 6 sets the engine RPM to
\* floor((byte4 + 256 * byte5) / 4); for every rpm with 4 * rpm <= 65535 the
\* frame sendFakeRPM(rpm) builds carries 4 * rpm in bytes 4-5 and decodes to
\* an engine RPM of rpm.
C16_RpmRoundTrip ==
    /\ (Decoded(170) /\ decIn.len >= 6) =>
          carState.engineRPM = (decIn.data[4] + 256 * decIn.data[5]) \div 4
    /\ \A rpm \in FakeRPMs :
          (/\ 4 * rpm <= 65535
           /\ Decoded(FakeRPMFrame(rpm).id)
           /\ decIn.len = FakeRPMFrame(rpm).dlc
           /\ decIn.data = Payload(FakeRPMFrame(rpm).data)) =>
              /\ decIn.data[4] + 256 * decIn.data[5] = 4 * rpm
              /\ carState.engineRPM = rpm

\* the frame of sendFakeRPM(2000) decoded: raw 8000, RPM 2000
C16_Witness ==
    /\ Decoded(170)
    /\ decIn.len = 8
    /\ decIn.data = Payload(FakeRPMFrame(2000).data)
    /\ decIn.data[4] + 256 * decIn.data[5] = 8000
    /\ carBefore.engineRPM # 2000
    /\ carState.engineRPM = 2000

\* byte0 + 256 * byte1 of the decoded payload
RawAngleIn == decIn.data[0] + 256 * decIn.data[1]

\* C17: decoding a 0x0c8 payload of length >= 2 sets the steering angle to
\* s / 23, with s the raw value when it is at most 32767 and the raw value
\* less 65536 from 32768 on.
C17_SteeringSign ==
    (Decoded(200) /\ decIn.len >= 2) =>
        carState.steeringWheelAngle =
            Ratio(IF RawAngleIn <= 32767 THEN RawAngleIn
                  ELSE RawAngleIn - 65536, 23)

\* raw 32768, the first negative value
C17_Witness ==
    /\ Decoded(200)
    /\ decIn.len >= 2
    /\ RawAngleIn = 32768
    /\ carState.steeringWheelAngle = Ratio(-32768, 23)

\* C18: decoding a 0x330 payload of length 8 sets the range to the
\* big-endian value of bytes 6-7, 256 * byte6 + byte7, divided by 16.
C18_RangeBigEndian ==
    (Decoded(816) /\ decIn.len = 8) =>
        carState.range = Ratio(256 * decIn.data[6] + decIn.data[7], 16)

\* the fields each vehicle decode rule writes, each with the number of
\* payload bytes that holds every byte the field is computed from
CarNeeds(id) ==
    CASE id = 168 -> {<<"braking", 2>>, <<"torque", 3>>}
      [] id = 170 -> {<<"throttlePosition", 4>>, <<"engineRPM", 6>>}
      [] id = 304 -> {<<"keyStateRaw", 1>>, <<"keyStateAvailable", 1>>}
      [] id = 417 -> {<<"speed", 4>>}
      [] id = 200 -> {<<"steeringWheelAngle", 2>>}
      [] id = 226 -> {<<"doorLocked", 1>>}
      [] id = 230 -> {<<"doorOpen", 3>>}
      [] id = 246 -> {<<"mirrorsRetracted", 1>>}
      [] id = 436 -> {<<"parkingBrakeOn", 6>>}
      [] id = 464 -> {<<"engineTemp", 1>>}
      [] id = 470 -> {<<"steeringButtonPressed", 2>>}
      [] id = 481 -> {<<"driverDoorOpen", 3>>}
      [] id = 646 -> {<<"domeLightBrightness", 2>>}
      [] id = 690 -> {<<"brakeStatus", 1>>}
      [] id = 753 -> {<<"seatBeltPlugged", 3>>}
      [] id = 764 -> {<<"doorOpenDriverFront", 2>>,
                      <<"doorOpenPassengerFront", 2>>,
                      <<"doorOpenDriverRear", 2>>,
                      <<"doorOpenPassengerRear", 2>>}
      [] id = 772 -> {<<"gearPositionRaw", 1>>}
      [] id = 816 -> {<<"odometer", 3>>, <<"fuelLevel", 4>>, <<"range", 8>>}
      [] id = 948 -> {<<"batteryVoltage", 2>>, <<"engineFlagFromCAN", 3>>}
      [] id = 950 -> {<<"windowPosDriverFront", 1>>}
      [] id = 951 -> {<<"windowPosDriverRear", 1>>}
      [] id = 952 -> {<<"windowPosPassengerFront", 1>>}
      [] id = 953 -> {<<"windowPosPassengerRear", 1>>}
      [] OTHER -> {}

\* the same for the climate decode rules
ClimNeeds(id) ==
    CASE id = 742 -> {<<"blowerState", 3>>, <<"fanSpeed", 6>>,
                      <<"driverTemp", 8>>}
      [] id = 746 -> {<<"passengerTemp", 8>>}
      [] id = 578 -> {<<"acActive", 1>>, <<"fanOn", 3>>}
      [] id = 562 -> {<<"driverSeatHeater", 1>>}
      [] id = 554 -> {<<"passengerSeatHeater", 1>>}
      [] OTHER -> {}

\* the decoded payload with every byte past its length read as zero
PresentBytes == [i \in 0..7 |-> IF i < decIn.len THEN decIn.data[i] ELSE 0]

\* field f is one the rule writes and all its bytes are in the payload
Present(needs, f) == \E p \in needs : p[1] = f /\ decIn.len >= p[2]

\* C19: a decode of any length 0..8 gives the rule's value to exactly the
\* fields whose bytes all lie within the payload and leaves every other
\* field of both snapshots at its previous value; a length of 0 changes
\* nothing; nothing is sent.
C19_PartialDecode ==
    (decPc = "done") =>
        LET fullCar == ParseCanFrame(carBefore, decIn.id, PresentBytes, 8)
            fullClim == ClimateParseCanFrame(climBefore, decIn.id,
                                             PresentBytes, 8)
        IN  /\ \A f \in DOMAIN carState :
                  carState[f] = IF Present(CarNeeds(decIn.id), f)
                                THEN fullCar[f] ELSE carBefore[f]
            /\ \A f \in DOMAIN climState :
                  climState[f] = IF Present(ClimNeeds(decIn.id), f)
                                 THEN fullClim[f] ELSE climBefore[f]
            /\ (decIn.len = 0) =>
                  (carState = carBefore /\ climState = climBefore)
            /\ tx = <<>>

\* 0x0a8 with two bytes: the braking flag changes, the torque stays although
\* the bytes that follow would have given another one
C19_Witness ==
    /\ Decoded(168)
    /\ decIn.len = 2
    /\ carState.braking # carBefore.braking
    /\ carState.torque = carBefore.torque
    /\ carState.torque #
          ParseCanFrame(carBefore, 168, decIn.data, 8).torque

\* C20: decoding a frame whose identifier has no decode rule, or one of the
\* placeholder identifiers 0x0ea / 0x0ee, leaves both snapshots as they were
\* and sends no frame.
C20_UnknownIgnored ==
    (decPc = "done" /\ decIn.id \notin CarRuleIds \cup ClimateRuleIds) =>
        /\ carState = carBefore
        /\ climState = climBefore
        /\ tx = <<>>

\* a full-length 0x0ea frame decoded over a snapshot that holds values
C20_Witness ==
    /\ Decoded(234)
    /\ decIn.len = 8
    /\ decIn.data[0] # carBefore.gearPositionRaw
    /\ carBefore # ZeroCarState
    /\ carState = carBefore
    /\ climState = climBefore


(***************************************************************************)
(* Derived status properties (SpecDecode)                                  *)
(***************************************************************************)
\* the fixed lookup of the key position from the raw byte of 0x130
KeyLookup(raw) ==
    CASE raw = 0 -> "KEY_ENGINE_OFF"
      [] raw = 64 -> "KEY_INSERTING"
      [] raw = 65 -> "KEY_POSITION_1"
      [] raw = 69 -> "KEY_POSITION_2"
      [] raw = 85 -> "KEY_CRANKING"
      [] OTHER -> "KEY_ENGINE_OFF"

\* C21: with the key state available isEngineRunning is true iff the key is
\* in position 2 or cranking and RPM > 400, whatever the legacy engine flag
\* says; with the key state unavailable it is true iff the legacy engine
\* flag is set and RPM > 400. The key state is the fixed lookup of the raw
\* byte.
C21_EngineRunning ==
    /\ carState.keyStateAvailable =>
          /\ GetKeyState(carState) = KeyLookup(carState.keyStateRaw)
          /\ IsEngineRunning(carState) <=>
                (/\ KeyLookup(carState.keyStateRaw)
                       \in {"KEY_POSITION_2", "KEY_CRANKING"}
                 /\ carState.engineRPM > 400)
    /\ ~carState.keyStateAvailable =>
          (IsEngineRunning(carState) <=>
              (carState.engineFlagFromCAN /\ carState.engineRPM > 400))

\* key decoded as position 1 while the legacy flag is set and the engine
\* turns at 2000: not running
C21_Witness ==
    /\ Decoded(304)
    /\ carState.keyStateAvailable
    /\ carState.keyStateRaw = 65
    /\ carState.engineFlagFromCAN
    /\ carState.engineRPM = 2000
    /\ ~IsEngineRunning(carState)

DirectionBit(mask, window, pos, down, up) ==
    IF (mask \div window) % 2 = 0 THEN 0
    ELSE IF pos = "WINDOW_ROLL_DOWN" THEN down
    ELSE IF pos = "WINDOW_ROLL_UP" THEN up
    ELSE 0

\* C23: setWindow(mask, pos) on an initialised object hands exactly one
\* frame to the transport: id 0x0fa, dlc 3, payload {0xC0 | f, 0xC0 | r,
\* 0xFF} with f the direction bits of the front and r those of the rear
\* windows in the mask (0x02 / 0x04 driver side, 0x10 / 0x20 passenger
\* side), none with WINDOW_NEUTRAL; it returns the transport's write result.
C23_WindowFrame ==
    (ctl.op = "setWindow" /\ ctl.bus) =>
        LET f == DirectionBit(ctl.arg, 1, ctl.pos, 2, 4)
                 + DirectionBit(ctl.arg, 2, ctl.pos, 16, 32)
            r == DirectionBit(ctl.arg, 4, ctl.pos, 2, 4)
                 + DirectionBit(ctl.arg, 8, ctl.pos, 16, 32)
        IN  /\ CallFrames = <<[id |-> 250, dlc |-> 3,
                               data |-> <<192 + f, 192 + r, 255>>]>>
            /\ ctl.ret = WriteOk(ctl.pat, 1)

\* driver front and passenger rear rolled up, the write refused
C23_Witness ==
    /\ ctl.op = "setWindow"
    /\ ctl.bus
    /\ ctl.arg = 9
    /\ ctl.pos = "WINDOW_ROLL_UP"
    /\ CallFrames = <<[id |-> 250, dlc |-> 3, data |-> <<196, 224, 255>>]>>
    /\ ~WriteOk(ctl.pat, 1)
    /\ ~ctl.ret


(***************************************************************************)
(* Active-set properties (SpecDome)                                        *)
(***************************************************************************)
\* C24: after any sequence of arm calls and ticks the active set holds each
\* step function at most once.
C24_OneInstance ==
    \A j, k \in 1..Len(updateFunctions) :
        updateFunctions[j] = updateFunctions[k] => j = k

\* the action armed again while its step is in the set and running
C24_Witness ==
    /\ lastAct = "setDomeLight"
    /\ callResult
    /\ pending
    /\ active
    /\ arms >= 2
    /\ updateFunctions = <<DomeFn>>

LastSent(f) == tx # <<>> /\ tx[Len(tx)] = f

\* no dome-light sequence is armed or under way
DomeQuiet == ~pending /\ ~active /\ updateFunctions = <<>>

\* C26: when update keeps being called, the clock keeps advancing and the
\* action is armed finitely often, every arm is eventually followed by a
\* press frame, and later by a release frame after which the step is
\* neither pending nor active and the active set is empty.
C26_Completes ==
    /\ pending ~> (active /\ ~pending /\ LastSent(DomePressFrame))
    /\ (pending \/ active) ~> (DomeQuiet /\ LastSent(DomeReleaseFrame))

\* a sequence armed at the end of the run and completed after it
C26_Witness ==
    /\ DomeQuiet
    /\ LastSent(DomeReleaseFrame)
    /\ lastAct = "update"
    /\ lastPressT > MaxTimeDome - 50
    /\ t >= lastPressT + BUTTON_PRESS_DURATION_MS
    /\ t > MaxTimeDome


(***************************************************************************)
(* Blocking and recognizer transitions (SpecKeys, SpecControl)             *)
(***************************************************************************)
\* C27: only seat-heater stepping waits on a delay before it returns: no
\* tick (CarControl::update, CustomKeys::update with the gesture action it
\* invokes) and no other control call lets time pass.
C27_OnlySeatHeaterBlocks ==
    /\ [][(lastAct' \in {"keys", "update"}) => t' = t]_vars
    /\ [][(ctl' # ctl /\ ctl'.op \notin SeatOps) => t' = t]_vars

\* the transitions of the recognizer
GestureTransitions ==
    { <<"IDLE", "FIRST_PRESS_DOWN">>,
      <<"FIRST_PRESS_DOWN", "LONG_PRESS_ACTIVE">>,
      <<"FIRST_PRESS_DOWN", "WAITING_FOR_SECOND_PRESS">>,
      <<"WAITING_FOR_SECOND_PRESS", "SECOND_PRESS_DOWN">>,
      <<"WAITING_FOR_SECOND_PRESS", "IDLE">>,
      <<"SECOND_PRESS_DOWN", "IDLE">>,
      <<"LONG_PRESS_ACTIVE", "IDLE">> }

\* this step recorded a gesture action of the given kind
Recorded(kind) ==
    /\ fired' # fired
    /\ fired' # <<>>
    /\ fired'[Len(fired')].kind = kind

\* the frames this step handed to the transceiver
StepFrames == SubSeq(tx', Len(tx) + 1, Len(tx'))

\* the two frames of the gong, 0x24b with 01 F8 and then 00 F8
GongFrames ==
    << [id |-> 587, dlc |-> 2, data |-> <<1, 248>>],
       [id |-> 587, dlc |-> 2, data |-> <<0, 248>>] >>

\* C28: the recognizer starts in IDLE; its state only changes in an update
\* and only along the seven transitions; an update invokes at most one
\* action: the single-press action (the gong frames) only on
\* WAITING_FOR_SECOND_PRESS -> IDLE, the double-press action (the window
\* frame) only on SECOND_PRESS_DOWN -> IDLE, the long-press action only on
\* FIRST_PRESS_DOWN -> LONG_PRESS_ACTIVE.
C28_Transitions ==
    /\ keyState = "IDLE"
    /\ [][(keyState' # keyState) =>
             /\ lastAct' = "keys"
             /\ <<keyState, keyState'>> \in GestureTransitions]_vars
    /\ [][(lastAct' = "keys") =>
             /\ StepFrames \in {<<>>, GongFrames,
                                <<SetWindowFrame(12, "WINDOW_ROLL_UP")>>,
                                <<SetWindowFrame(12, "WINDOW_ROLL_DOWN")>>}
             /\ (fired' # fired /\ fired' # <<>>) =>
                   Len(fired') <= Len(fired) + 1
             /\ (StepFrames = GongFrames \/ Recorded("single")) =>
                   (/\ keyState = "WAITING_FOR_SECOND_PRESS"
                    /\ keyState' = "IDLE"
                    /\ StepFrames = GongFrames)
             /\ (Len(StepFrames) = 1 \/ Recorded("double")) =>
                   (/\ keyState = "SECOND_PRESS_DOWN"
                    /\ keyState' = "IDLE"
                    /\ Len(StepFrames) = 1)
             /\ Recorded("long") =>
                   (/\ keyState = "FIRST_PRESS_DOWN"
                    /\ keyState' = "LONG_PRESS_ACTIVE"
                    /\ StepFrames = <<>>)]_vars

\* a long press has been released: the seventh transition was taken after
\* the first and the second
C28_Witness ==
    /\ keyState = "IDLE"
    /\ lastAct = "keys"
    /\ ~missed
    /\ Len(sig) = 2
    /\ Len(samp) = 2
    /\ Kinds(fired) = {"long"}

\* more than ms milliseconds lie between the timestamp and the clock
ElapsedOver(stamp, ms) ==
    LET e == MillisSub(now, stamp) IN e[1] > 0 \/ e[2] > ms

\* C29: an update that finds the recognizer in WAITING_FOR_SECOND_PRESS more
\* than 400 ms after the recorded first release ends the gesture as a single
\* press (state IDLE), also when it samples a rising edge.
C29_WindowClosed ==
    [][(/\ lastAct' = "keys"
        /\ keyState = "WAITING_FOR_SECOND_PRESS"
        /\ ElapsedOver(firstReleaseTime, DOUBLE_PRESS_WINDOW)) =>
          keyState' = "IDLE"]_vars

\* C30: an update that finds the recognizer in FIRST_PRESS_DOWN 800 ms or
\* more after the recorded press start does not enter
\* WAITING_FOR_SECOND_PRESS.
C30_HeldNoSingle ==
    [][(/\ lastAct' = "keys"
        /\ keyState = "FIRST_PRESS_DOWN"
        /\ ElapsedOver(pressStartTime, LONG_PRESS_THRESHOLD - 1)) =>
          keyState' # "WAITING_FOR_SECOND_PRESS"]_vars

(***************************************************************************)
(* Elapsed-time tests across the wrap of millis(): properties              *)
(***************************************************************************)
\* millis() has wrapped since the timestamp was taken
WrappedSince(stamp) == stamp[1] = Half - 1 /\ now[1] = 0

\* C31: each elapsed-time test gives the answer of the true elapsed time,
\* also when millis() has wrapped since the timestamp was taken: the
\* long-press test against the time since the update that sampled the press,
\* the double-press window against the time since the update that sampled
\* the first release, and the release test of the dome-light step against
\* the time since the press frame was sent.
C31_TrueElapsed ==
    /\ (keyState = "FIRST_PRESS_DOWN" /\ ~missed /\ Len(samp) >= 1) =>
          (LongPressDue(now) <=> t - samp[1] >= LONG_PRESS_THRESHOLD)
    /\ (keyState = "WAITING_FOR_SECOND_PRESS" /\ ~missed /\ Len(samp) >= 2) =>
          (DoubleWindowOver(now) <=> t - samp[2] >= DOUBLE_PRESS_WINDOW)
    /\ active =>
          (DomeReleaseDue(DomeStatics, now)
             <=> t - lastPressT >= BUTTON_PRESS_DURATION_MS)

\* millis() wrapped inside the double-press window of a gesture and inside
\* the press of a dome-light command: the first release was sampled and the
\* press frame was sent before the wrap, both tests succeed after it
C31_Witness ==
    /\ keyState = "WAITING_FOR_SECOND_PRESS" /\ ~missed /\ Len(samp) = 2
    /\ WrappedSince(firstReleaseTime)
    /\ DoubleWindowOver(now)
    /\ active
    /\ WrappedSince(pressTime)
    /\ DomeReleaseDue(DomeStatics, now)

\* millis() wrapped while the button was held: the press was sampled before
\* the wrap and the long-press test succeeds after it
C31_LongAcrossWrap ==
    /\ keyState = "FIRST_PRESS_DOWN" /\ ~missed /\ Len(samp) = 1
    /\ WrappedSince(pressStartTime)
    /\ LongPressDue(now)

(***************************************************************************)
(* Gesture recognizer: return to IDLE                                      *)
(***************************************************************************)
\* C32: in a loop that keeps calling update and whose clock keeps advancing,
\* if the button is released from some point on, the recognizer reaches
\* IDLE and stays there; and it leaves IDLE only in an update that samples
\* a rising edge.
C32_ResetToIdle ==
    /\ (<>[](~ButtonNow)) => <>[](keyState = "IDLE")
    /\ [][(keyState = "IDLE" /\ keyState' # "IDLE") =>
            (lastAct' = "keys" /\ ButtonNow /\ ~lastButtonState)]_vars

\* a gesture has ended: the recognizer is back in IDLE after an update
\* invoked a gesture action, the button is released
C32_Witness ==
    /\ keyState = "IDLE" /\ lastAct = "keys" /\ ~ButtonNow
    /\ ~missed /\ Len(fired) = 1 /\ fired[1].kind = "single"
    /\ t > MaxTimeKeys

(***************************************************************************)
(* Frame intake: properties                                                *)
(***************************************************************************)
\* C33: a step that changes a snapshot is the decode of loop()'s frame by
\* onCanFrameReceived and leaves the queue alone; a step that puts into the
\* queue (the interrupt handler) takes one frame from the transceiver,
\* enqueues at most one, and leaves the snapshots and loop()'s frame alone.
C33_DecodeInLoopOnly ==
    /\ [][(carState' # carState \/ climState' # climState) =>
            (/\ decPc = "start" /\ decPc' = "done"
             /\ carState' = ParseCanFrame(carState, decIn.id, decIn.data, decIn.len)
             /\ climState' = ClimateParseCanFrame(climState, decIn.id, decIn.data,
                                                  decIn.len)
             /\ UNCHANGED queueVars)]_vars
    /\ [][(bufferHead' # bufferHead \/ buffer' # buffer \/ lastPut' # lastPut
             \/ accepted' # accepted) =>
            (/\ arrivals' = arrivals + 1
             /\ Len(accepted') <= Len(accepted) + 1
             /\ UNCHANGED <<carState, climState, decVars>>)]_vars

\* loop() has decoded the 0x0aa frame and then the 0x2e6 frame, both
\* snapshots have changed, and the interrupt handler has enqueued the frame
\* that followed
C33_Witness ==
    /\ decPc = "done" /\ decIn.id = 742
    /\ carState # ZeroCarState
    /\ climState # climBefore
    /\ arrivals = 3
    /\ Len(accepted) = 1 /\ accepted[1].id = 1314

\* the frame loop() hands to the two onCanFrameReceived calls
HandedFrame == MkFrame(decIn.id, decIn.len, decIn.data)

\* C34: the frame loop() hands to the codec is the frame the latest
\* bufferGet returned, and it is the latest entry of the logging queue.
C34_DequeuedAndLogged ==
    decPc \in {"start", "done"} =>
        /\ returned # <<>>
        /\ returned[Len(returned)] = HandedFrame
        /\ logHead # logTail
        /\ logBuffer[(logHead + LOG_BUFFER_SIZE - 1) % LOG_BUFFER_SIZE].frame
             = HandedFrame

(***************************************************************************)
(* Protocol codec: one decode rule per field                               *)
(***************************************************************************)
\* the fields the decode rule of an identifier writes
CarFields(id) == {p[1] : p \in CarNeeds(id)}

ClimFields(id) == {p[1] : p \in ClimNeeds(id)}

\* for each field, the identifiers whose rule writes it
CarWriters ==
    [f \in DOMAIN ZeroCarState |-> {id \in CarRuleIds : f \in CarFields(id)}]

ClimWriters ==
    [f \in DOMAIN ZeroClimState |->
        {id \in ClimateRuleIds : f \in ClimFields(id)}]

\* the start snapshots with the identifiers of the frames that led to them
SeenSnapshots ==
    { [car |-> PrimedCar(run, Len(run)), clim |-> PrimedClim(run, Len(run)),
       seen |-> {run[k].id : k \in 1..Len(run)}] : run \in PrimeRuns }

\* C35: every field of the two snapshots belongs to the rule of exactly one
\* identifier; a decode of identifier X leaves every field of the rule of
\* another identifier at its previous value; and after the decode the
\* fields of every identifier that was never decoded hold the value the
\* constructor gave them.
C35_OneRulePerField ==
    (decPc = "done") =>
        /\ \A f \in DOMAIN carState : Cardinality(CarWriters[f]) = 1
        /\ \A f \in DOMAIN climState : Cardinality(ClimWriters[f]) = 1
        /\ \A f \in DOMAIN carState :
              CarWriters[f] # {decIn.id} => carState[f] = carBefore[f]
        /\ \A f \in DOMAIN climState :
              ClimWriters[f] # {decIn.id} => climState[f] = climBefore[f]
        /\ \A r \in SeenSnapshots :
              (carBefore = r.car /\ climBefore = r.clim) =>
                 /\ \A f \in DOMAIN carState :
                       CarWriters[f] \cap (r.seen \cup {decIn.id}) = {} =>
                          carState[f] = ZeroCarState[f]
                 /\ \A f \in DOMAIN climState :
                       ClimWriters[f] \cap (r.seen \cup {decIn.id}) = {} =>
                          climState[f] = ZeroClimState[f]

\* a steering frame decoded on a vehicle that has sent every frame but
\* 0x130: the angle changes, the speed of the earlier 0x1a1 frame stays, the
\* key-state fields still hold their constructed values
C35_Witness ==
    /\ decPc = "done" /\ decIn.id = 200
    /\ carState.steeringWheelAngle # carBefore.steeringWheelAngle
    /\ carBefore.speed # Ratio(0, 1)
    /\ carState.speed = carBefore.speed
    /\ carState.doorLocked
    /\ carBefore.engineRPM # 0
    /\ ~carState.keyStateAvailable /\ carState.keyStateRaw = 0
    /\ climState = climBefore /\ climState # ZeroClimState

(***************************************************************************)
(* Dome-light sequencer: the active set and the simulated button           *)
(***************************************************************************)
\* C36: in every state between two calls (so after every setDomeLight call
\* and after every CarControl::update call) the dome-light step is in
\* updateFunctions if and only if its pending flag or its active flag is
\* set.
C36_InSetIffBusy ==
    (DomeInstances # {}) <=> (pending \/ active)

\* the action armed again after a sequence that has completed: the step had
\* left the set with the release frame and is back in it, pending
C36_Witness ==
    /\ lastAct = "setDomeLight"
    /\ arms = 2
    /\ pending /\ ~active
    /\ tx = <<DomePressFrame, DomeReleaseFrame>>
    /\ DomeInstances = {1}

\* the frames handed to the transceiver with identifier 0x1e3, oldest first
DomeSent == SelectSeq(tx, LAMBDA f : f.id = 483)

\* C37: in every state in which the dome-light step is not active, the
\* latest frame sent on 0x1e3 is the release frame F0 FF, or no frame has
\* been sent on 0x1e3.
C37_NeverLeftPressed ==
    ~active =>
        \/ DomeSent = <<>>
        \/ DomeSent[Len(DomeSent)] = DomeReleaseFrame

\* a sequence that was re-armed while it ran has ended: two press frames,
\* then the release frame, and the step is neither active nor pending
C37_Witness ==
    /\ ~active /\ ~pending
    /\ arms = 2
    /\ DomeSent = <<DomePressFrame, DomePressFrame, DomeReleaseFrame>>

(***************************************************************************)
(* Frame Transport Queue: indices and who writes what                      *)
(***************************************************************************)
\* C38: head and tail stay in 0..31, the number of frames accepted and not
\* yet returned is (head - tail) mod 32 and at most 31; only a put changes
\* the head or a slot, only the last step of a get changes the tail, and no
\* step of a get changes the head or a slot.  The logging instance, which
\* nothing calls, keeps its indices in range as well.
C38_IndicesAndWriters ==
    /\ [](/\ bufferHead \in 0..(CAN_BUFFER_SIZE - 1)
          /\ bufferTail \in 0..(CAN_BUFFER_SIZE - 1)
          /\ Pending = (bufferHead - bufferTail) % CAN_BUFFER_SIZE
          /\ Pending <= CAN_BUFFER_SIZE - 1
          /\ logHead \in 0..(LOG_BUFFER_SIZE - 1)
          /\ logTail \in 0..(LOG_BUFFER_SIZE - 1))
    /\ [][(bufferHead' # bufferHead \/ buffer' # buffer) =>
            (/\ arrivals' = arrivals + 1
             /\ lastPut' = "ok"
             /\ UNCHANGED <<bufferTail, gpc, gi, rx>>)]_vars
    /\ [][(bufferTail' # bufferTail) =>
            (/\ gpc = "tail" /\ gpc' = "idle"
             /\ arrivals' = arrivals
             /\ UNCHANGED <<bufferHead, buffer>>)]_vars
    /\ [][(gpc' # gpc \/ gi' # gi \/ rx' # rx \/ lastGet' # lastGet) =>
            UNCHANGED <<bufferHead, buffer>>]_vars

\* the ring has wrapped: the head index is below the tail index, 31 frames
\* wait, and a get is in the middle of copying the oldest one
C38_Witness ==
    /\ bufferHead < bufferTail
    /\ Pending = CAN_BUFFER_SIZE - 1
    /\ gpc = "data"
    /\ Len(returned) >= 1

(***************************************************************************)
(* Fake RPM injection: the raw value                                       *)
(***************************************************************************)
\* C39: for every rpm, rawRPM is 4 * rpm, the frame sendFakeRPM builds has
\* identifier 0x0aa and length 8, and decoding it gives engine RPM rpm and
\* throttle 0.
C39_FakeRpmNoOverflow ==
    \A rpm \in FakeRPMs :
        /\ FakeRPMFrame(rpm).id = 170
        /\ FakeRPMFrame(rpm).dlc = 8
        /\ (/\ Decoded(170)
            /\ decIn.len = 8
            /\ decIn.data = Payload(FakeRPMFrame(rpm).data)) =>
              /\ RawRPM(rpm) = 4 * rpm
              /\ carState.engineRPM = rpm
              /\ carState.throttlePosition = 0

(***************************************************************************)
(* Gesture recognizer: the stored previous sample                          *)
(***************************************************************************)
\* the states the recognizer is in while it has sampled the button high
DownStates == {"FIRST_PRESS_DOWN", "SECOND_PRESS_DOWN", "LONG_PRESS_ACTIVE"}

\* C40: lastButtonState is true exactly in FIRST_PRESS_DOWN,
\* SECOND_PRESS_DOWN and LONG_PRESS_ACTIVE and false exactly in IDLE and
\* WAITING_FOR_SECOND_PRESS; so an update that samples the button high in
\* IDLE or WAITING_FOR_SECOND_PRESS takes it as a rising edge, and one that
\* samples it high in a down state does not count another press.
C40_PreviousSample ==
    /\ [](lastButtonState <=> keyState \in DownStates)
    /\ [][(KeysTick /\ ButtonNow /\ keyState = "IDLE") =>
            keyState' = "FIRST_PRESS_DOWN"]_vars
    /\ [][(KeysTick /\ ButtonNow /\ keyState = "WAITING_FOR_SECOND_PRESS") =>
            keyState' = "SECOND_PRESS_DOWN"]_vars
    /\ [][(KeysTick /\ ButtonNow /\ keyState \in DownStates) =>
            (keyState' \in {keyState, "LONG_PRESS_ACTIVE"}
             /\ pressStartTime' = pressStartTime)]_vars

\* the second press of a double press has been sampled: the recognizer went
\* from WAITING_FOR_SECOND_PRESS, where the previous sample was low, to
\* SECOND_PRESS_DOWN, where it is high
C40_Witness ==
    /\ lastAct = "keys"
    /\ keyState = "SECOND_PRESS_DOWN"
    /\ lastButtonState
    /\ ButtonNow
    /\ ~missed /\ Len(samp) = 3

=============================================================================
